---- MODULE Spec2Model ----
(***************************************************************************)
(* blesstest: the test-case preprocessing pipeline of                      *)
(* src/src/blesstest/preprocessing.py (preprocess_test_cases): bracket     *)
(* parameter expansion, base resolution, variation expansion and the       *)
(* abstract filter, as a state machine over one input document.            *)
(*                                                                         *)
(* Data.  A CaseInfo is a record                                           *)
(*   [abstract, name, params, harness, variations]                         *)
(* where params is a function from parameter keys (strings) to values,     *)
(* harness and name are strings or None, and variations is an optional     *)
(* list [some |-> BOOLEAN, list |-> <<CaseInfo, ...>>] (Python's None is   *)
(* some = FALSE, the empty list is some = TRUE with list = <<>>).          *)
(* A parameter value is [isList, val, items]: a scalar (an integer val)    *)
(* or a list of values, so that values of both shapes can be compared.     *)
(***************************************************************************)
EXTENDS Integers, Sequences, FiniteSets, TLC

VARIABLES
    raw_test_cases,    \* the input document: name -> [base, info]; never written
    order,             \* the insertion order of the input mapping's keys
    parsed_cases,      \* name -> [base, info], mutated in place by stage 1
    pc,                \* the position of preprocess_test_cases
    i,                 \* index of the running for loop over `order`
    processed_cases,   \* resolve_bases: the memo of resolved templates
    processing_stack,  \* resolve_bases: the set of names being resolved
    call_stack,        \* resolve_bases: process_case frames waiting at line 64
    arg,               \* resolve_bases: argument of the process_case call being entered
    resolved_order,    \* resolve_bases: the insertion order of processed_cases' keys
    expanded_cases,    \* resolve_variations: the accumulated leaves
    result,            \* the returned mapping (concrete_cases), or NoResult
    err,               \* the ValueError raised, or NoError
    runner,            \* what runs the collected case: BlessTestItem.runtest or the
                       \* decorator's test_func; None before collection
    self_name,         \* the name of the collected case
    test_pc,           \* the position of the running test
    harness_call,      \* how harness.func ended and what BLESSTEST_DEBUG held,
                       \* or NotCalled
    test_result,       \* runtest's local `result`
    blessed_file,      \* the content of the per-case blessed file, or NoFile
    git,               \* what the `git status` subprocess gave, or NotRun
    status,            \* the GitStatus returned, or None
    raised             \* the exception that left the test, or None

test_vars == <<runner, self_name, test_pc, harness_call, test_result, blessed_file,
               git, status, raised>>

preprocess_vars == <<raw_test_cases, order, parsed_cases, pc, i, processed_cases,
                     processing_stack, call_stack, arg, resolved_order,
                     expanded_cases, result, err>>

vars == <<preprocess_vars, test_vars>>

-----------------------------------------------------------------------------
(* Values *)

None == "<None>"

\* Python truthiness of an Optional[str]
Truthy(s) == s # None /\ s # ""

Scalar(v) == [isList |-> FALSE, val |-> v, items |-> <<>>]
List(s) == [isList |-> TRUE, val |-> 0, items |-> s]

NoVariations == [some |-> FALSE, list |-> <<>>]
Variations(s) == [some |-> TRUE, list |-> s]

\* CaseInfo(...) with the pydantic defaults of BaseCaseInfo / CaseInfo
CaseInfo(abstract, name, params, harness, variations) ==
    [abstract |-> abstract, name |-> name, params |-> params,
     harness |-> harness, variations |-> variations]

EmptyParams == <<>>

\* dict update {**a, **b}: b's value wins on a shared key
DictUpdate(a, b) ==
    [k \in DOMAIN a \cup DOMAIN b |-> IF k \in DOMAIN b THEN b[k] ELSE a[k]]

\* a deletion that deletes nothing
Mut_DictRemove_keeps_keys(d, ks) == d

\* del d[k] for every k in ks
DictRemove(d, ks) == [k \in DOMAIN d \ ks |-> d[k]]

RECURSIVE PyStr(_)
RECURSIVE PyJoinValues(_)
\* str(v) as the f-string of _generate_variation_name renders a value
PyStr(v) ==
    IF v.isList THEN "[" \o PyJoinValues(v.items) \o "]" ELSE ToString(v.val)
PyJoinValues(s) ==
    IF s = <<>> THEN ""
    ELSE IF Len(s) = 1 THEN PyStr(s[1])
    ELSE PyStr(s[1]) \o ", " \o PyJoinValues(Tail(s))

RECURSIVE JoinWith(_, _)
\* sep.join(parts)
JoinWith(sep, parts) ==
    IF parts = <<>> THEN ""
    ELSE IF Len(parts) = 1 THEN parts[1]
    ELSE parts[1] \o sep \o JoinWith(sep, Tail(parts))

\* Errors: each kind is one raise statement of preprocessing.py
NoError == [kind |-> "none", about |-> None]
Error(kind, about) == [kind |-> kind, about |-> about]

NoResult == [some |-> FALSE, cases |-> <<>>]

-----------------------------------------------------------------------------
(* Stage 1: _expand_parameter_variations *)

\* The parameter keys of the model's documents, in Python's string order
\* ('[' sorts before the lower-case letters).  The documents insert their
\* params in this order, so it is also the dict iteration order of stage 1,
\* and it is the order of sorted(params.items()) in _generate_variation_name.
KeyOrder == <<"[[m]]", "[[n,m]]", "[k]", "[m]", "[n]", "k", "m", "n", "x", "y">>

\* re.fullmatch(r"\[(\w+)\]", key): the keys that match, with group(1)
SingleMatch == ("[k]" :> "k") @@ ("[m]" :> "m") @@ ("[n]" :> "n")

\* re.fullmatch(r"\[\[(\w+(?:,\s*\w+)*)\]\]", key): the keys that match, with
\* [p.strip() for p in group(1).split(",")]
MultiMatch == ("[[m]]" :> <<"m">>) @@ ("[[n,m]]" :> <<"n", "m">>)

\* the keys of a dict in iteration order
KeysOf(params) == SelectSeq(KeyOrder, LAMBDA k : k \in DOMAIN params)

SeqRange(s) == {s[j] : j \in 1..Len(s)}

\* dict(zip(names, values)): a repeated name keeps its last value
DictZip(names, values) ==
    LET n == IF Len(names) < Len(values) THEN Len(names) ELSE Len(values)
        last(nm) == CHOOSE j \in 1..n :
                        names[j] = nm /\ \A l \in 1..n : names[l] = nm => l <= j
    IN [nm \in {names[j] : j \in 1..n} |-> values[last(nm)]]

RECURSIVE ConcatAll(_)
ConcatAll(ss) == IF ss = <<>> THEN <<>> ELSE ss[1] \o ConcatAll(Tail(ss))

RECURSIVE Mut_Product_skips_empty_groups(_)
\* a product that leaves the empty groups out
Mut_Product_skips_empty_groups(groups) ==
    IF groups = <<>> THEN << <<>> >>
    ELSE LET rest == Mut_Product_skips_empty_groups(Tail(groups))
         IN IF groups[1] = <<>> THEN rest
            ELSE ConcatAll([a \in 1..Len(groups[1]) |->
                               [b \in 1..Len(rest) |-> <<groups[1][a]>> \o rest[b]]])

RECURSIVE Product(_)
\* list(itertools.product(*groups)): the last group advances fastest
Product(groups) ==
    IF groups = <<>> THEN << <<>> >>
    ELSE LET rest == Product(Tail(groups))
         IN ConcatAll([a \in 1..Len(groups[1]) |->
                          [b \in 1..Len(rest) |-> <<groups[1][a]>> \o rest[b]]])

RECURSIVE MergeDicts(_)
\* merged_params after merged_params.update(d) for each d of the tuple
MergeDicts(param_tuple) ==
    IF param_tuple = <<>> THEN EmptyParams
    ELSE DictUpdate(param_tuple[1], MergeDicts(Tail(param_tuple)))

\* overlapping_keys is non-empty for some dict of the tuple
Overlapping(param_tuple) ==
    \E a, b \in 1..Len(param_tuple) :
        a < b /\ DOMAIN param_tuple[a] \cap DOMAIN param_tuple[b] # {}

\* lines 270-304: is the key a parameter variation (a bracket key with a list value)
IsSingleVariation(params, key) == key \in DOMAIN SingleMatch /\ params[key].isList
IsMultiVariation(params, key) == key \in DOMAIN MultiMatch /\ params[key].isList

\* InvalidValueFormat that tests the element's type alone, not its length
Mut_InvalidValueFormat_any_length(params, key) ==
    /\ IsMultiVariation(params, key)
    /\ \E j \in 1..Len(params[key].items) : ~params[key].items[j].isList

\* lines 290-297: some element of a multi key's value is no list of the names' length
InvalidValueFormat(params, key) ==
    /\ IsMultiVariation(params, key)
    /\ \E j \in 1..Len(params[key].items) :
          \/ ~params[key].items[j].isList
          \/ Len(params[key].items[j].items) # Len(MultiMatch[key])

\* ParamGroup that assigns to the key as written, brackets included
Mut_ParamGroup_keeps_brackets(params, key) ==
    LET items == params[key].items
    IN IF IsSingleVariation(params, key)
       THEN [j \in 1..Len(items) |-> (key :> items[j])]
       ELSE [j \in 1..Len(items) |-> DictZip(MultiMatch[key], items[j].items)]

\* lines 276 and 289-299: the group a bracket key generates
ParamGroup(params, key) ==
    LET items == params[key].items
    IN IF IsSingleVariation(params, key)
       THEN [j \in 1..Len(items) |-> (SingleMatch[key] :> items[j])]
       ELSE [j \in 1..Len(items) |-> DictZip(MultiMatch[key], items[j].items)]

RECURSIVE _expand_parameter_variations(_)
RECURSIVE ExpandEachVariation(_, _)

\* lines 340-343: the loop over case_info.variations, each modified in place;
\* an exception leaves the later variations untouched
ExpandEachVariation(variations, j) ==
    IF j > Len(variations) THEN [list |-> variations, err |-> NoError]
    ELSE LET r == _expand_parameter_variations(variations[j])
             updated == [variations EXCEPT ![j] = r.info]
         IN IF r.err # NoError THEN [list |-> updated, err |-> r.err]
            ELSE ExpandEachVariation(updated, j + 1)

\* The function returns [info, err]: the case_info object as the call leaves it
\* (it is modified in place), and the error raised, if any.
_expand_parameter_variations(case_info) ==
    LET params == case_info.params
        keys == KeysOf(params)
        variation_keys == SelectSeq(keys, LAMBDA k :
                              IsSingleVariation(params, k) \/ IsMultiVariation(params, k))
        bad_keys == SelectSeq(keys, LAMBDA k : InvalidValueFormat(params, k))
        param_variation_groups ==
            [j \in 1..Len(variation_keys) |-> ParamGroup(params, variation_keys[j])]
        has_param_variations == variation_keys # <<>>
        explicit_variations == case_info.variations
        stripped == [case_info EXCEPT !.params = DictRemove(params, SeqRange(variation_keys))]
        product_results == Product(param_variation_groups)
        combined_param_variations ==
            [j \in 1..Len(product_results) |->
                CaseInfo(FALSE, None, MergeDicts(product_results[j]), None, NoVariations)]
        generated == [stripped EXCEPT !.variations =
                         IF combined_param_variations # <<>>
                         THEN Variations(combined_param_variations)
                         ELSE NoVariations]
        current == IF has_param_variations THEN generated ELSE case_info
        children == ExpandEachVariation(current.variations.list, 1)
    IN IF bad_keys # <<>>
       THEN [info |-> case_info, err |-> Error("InvalidValueFormat", bad_keys[1])]
       ELSE IF explicit_variations.list # <<>> /\ has_param_variations
       THEN [info |-> case_info, err |-> Error("BothVariations", None)]
       ELSE IF has_param_variations /\ \E j \in 1..Len(product_results) :
                                          Overlapping(product_results[j])
       THEN [info |-> stripped, err |-> Error("OverlappingKeys", None)]
       ELSE IF current.variations.list # <<>>
       THEN [info |-> [current EXCEPT !.variations = Variations(children.list)],
             err |-> children.err]
       ELSE [info |-> current, err |-> NoError]

-----------------------------------------------------------------------------
(* Merging: _check_conflict, _expand_variations, _merge_base_and_variation *)

\* _check_conflict that compares the params alone
Mut_check_conflict_ignores_harness(original_variation, dont_conflict_with) ==
    \E param_name \in DOMAIN original_variation.params :
        /\ param_name \in DOMAIN dont_conflict_with.params
        /\ dont_conflict_with.params[param_name] # original_variation.params[param_name]

\* TRUE when _check_conflict raises
_check_conflict(original_variation, dont_conflict_with) ==
    \/ /\ Truthy(original_variation.harness)
       /\ Truthy(dont_conflict_with.harness)
       /\ original_variation.harness # dont_conflict_with.harness
    \/ \E param_name \in DOMAIN original_variation.params :
          /\ param_name \in DOMAIN dont_conflict_with.params
          /\ dont_conflict_with.params[param_name] # original_variation.params[param_name]

\* _expand_variations that appends the added variations to the base's list
\* instead of attaching them beneath its leaves
Mut_expand_variations_concatenates(original_variations, variations_to_add, dont_conflict_with) ==
    LET originals == original_variations.list
    IN IF \E j \in 1..Len(originals) : _check_conflict(originals[j], dont_conflict_with)
       THEN [variations |-> NoVariations, conflict |-> TRUE]
       ELSE IF originals = <<>>
       THEN [variations |-> variations_to_add, conflict |-> FALSE]
       ELSE [variations |-> Variations(originals \o variations_to_add.list),
             conflict |-> FALSE]

RECURSIVE _expand_variations(_, _, _)
\* returns [variations, conflict]: the optional list returned, or conflict = TRUE
\* when a _check_conflict call raised
_expand_variations(original_variations, variations_to_add, dont_conflict_with) ==
    LET originals == original_variations.list
        subs == [j \in 1..Len(originals) |->
                    _expand_variations(originals[j].variations, variations_to_add,
                                       dont_conflict_with)]
        edited == [j \in 1..Len(originals) |->
                      [originals[j] EXCEPT !.variations = subs[j].variations]]
        edited_variations == SelectSeq(edited, LAMBDA v : v.variations.list # <<>>)
    IN IF \E j \in 1..Len(originals) : _check_conflict(originals[j], dont_conflict_with)
       THEN [variations |-> NoVariations, conflict |-> TRUE]
       ELSE IF originals = <<>>
       THEN [variations |-> variations_to_add, conflict |-> FALSE]
       ELSE IF variations_to_add.list = <<>>
       THEN [variations |-> original_variations, conflict |-> FALSE]
       ELSE IF \E j \in 1..Len(originals) : subs[j].conflict
       THEN [variations |-> NoVariations, conflict |-> TRUE]
       ELSE IF edited_variations = <<>>
       THEN [variations |-> NoVariations, conflict |-> FALSE]
       ELSE [variations |-> Variations(edited_variations), conflict |-> FALSE]

\* _merge_base_and_variation that takes abstract from the variant alone
Mut_merge_drops_abstract(base_case, variant_case, preserve_abstract) ==
    LET variant_case_variations ==
            _expand_variations(base_case.variations, variant_case.variations, variant_case)
    IN [info |-> CaseInfo(
                    variant_case.abstract,
                    variant_case.name,
                    DictUpdate(base_case.params, variant_case.params),
                    IF Truthy(variant_case.harness) THEN variant_case.harness
                                                    ELSE base_case.harness,
                    variant_case_variations.variations),
        conflict |-> variant_case_variations.conflict]

\* _merge_base_and_variation with the dict update reversed: the base's value wins
Mut_merge_base_params_win(base_case, variant_case, preserve_abstract) ==
    LET variant_case_variations ==
            _expand_variations(base_case.variations, variant_case.variations, variant_case)
    IN [info |-> CaseInfo(
                    variant_case.abstract \/ (preserve_abstract /\ base_case.abstract),
                    variant_case.name,
                    DictUpdate(variant_case.params, base_case.params),
                    IF Truthy(variant_case.harness) THEN variant_case.harness
                                                    ELSE base_case.harness,
                    variant_case_variations.variations),
        conflict |-> variant_case_variations.conflict]

\* _merge_base_and_variation with the harness taken from the base first
Mut_merge_base_harness_wins(base_case, variant_case, preserve_abstract) ==
    LET variant_case_variations ==
            _expand_variations(base_case.variations, variant_case.variations, variant_case)
    IN [info |-> CaseInfo(
                    variant_case.abstract \/ (preserve_abstract /\ base_case.abstract),
                    variant_case.name,
                    DictUpdate(base_case.params, variant_case.params),
                    IF Truthy(base_case.harness) THEN base_case.harness
                                                 ELSE variant_case.harness,
                    variant_case_variations.variations),
        conflict |-> variant_case_variations.conflict]

\* _merge_base_and_variation that carries the base's abstract flag whatever
\* preserve_abstract says
Mut_merge_always_preserves_abstract(base_case, variant_case, preserve_abstract) ==
    LET variant_case_variations ==
            _expand_variations(base_case.variations, variant_case.variations, variant_case)
    IN [info |-> CaseInfo(
                    variant_case.abstract \/ base_case.abstract,
                    variant_case.name,
                    DictUpdate(base_case.params, variant_case.params),
                    IF Truthy(variant_case.harness) THEN variant_case.harness
                                                    ELSE base_case.harness,
                    variant_case_variations.variations),
        conflict |-> variant_case_variations.conflict]

\* returns [info, conflict]
_merge_base_and_variation(base_case, variant_case, preserve_abstract) ==
    LET variant_case_variations ==
            _expand_variations(base_case.variations, variant_case.variations, variant_case)
    IN [info |-> CaseInfo(
                    variant_case.abstract \/ (preserve_abstract /\ base_case.abstract),
                    variant_case.name,
                    DictUpdate(base_case.params, variant_case.params),
                    IF Truthy(variant_case.harness) THEN variant_case.harness
                                                    ELSE base_case.harness,
                    variant_case_variations.variations),
        conflict |-> variant_case_variations.conflict]

-----------------------------------------------------------------------------
(* Stage 3: _generate_variation_name, resolve_variations *)

MAX_PARAM_STR_LEN == 32
hash_len == 3

\* base64.b64encode(hashlib.sha256(param_str.encode()).digest()).rstrip(b"=")
\* cut to its first hash_len characters, for the joined strings of the model's
\* documents that are longer than MAX_PARAM_STR_LEN (the digests are SHA-256's)
VariationHashShort ==
    [param_str \in {"harness_of_exactly_33_characters_"} |-> "Zl9"]
    @@ ("harness_of_exactly_32_characters__x_1" :> "sGI")
    @@ ("harness_of_exactly_32_characters__x_2" :> "DSc")
    @@ ("harness_of_exactly_32_characters__y_1" :> "1SI")
    @@ ("harness_of_exactly_32_characters__m_2" :> "IA/")
    @@ ("harness_of_exactly_33_characters___x_1" :> "PUq")
    @@ ("harness_of_exactly_33_characters___x_2" :> "V+q")
    @@ ("harness_of_exactly_33_characters___y_1" :> "iDT")
    @@ ("harness_of_exactly_33_characters___n_1" :> "0S/")
    @@ ("harness_of_exactly_33_characters___m_2" :> "Z88")
    @@ ("harness_of_exactly_32_characters__m_2__n_1" :> "dzJ")
    @@ ("harness_of_exactly_33_characters___m_2__n_1" :> "oXI")
    @@ ("harness_of_27_characters_____m_2__n_1" :> "EoG")

\* _generate_variation_name without the test of variation_data.name
Mut_generate_variation_name_ignores_name(base_name, variation_data) ==
    LET variation_params == variation_data.params
        sorted_keys == KeysOf(variation_params)
        key_parts == [j \in 1..Len(sorted_keys) |->
                         sorted_keys[j] \o "_" \o PyStr(variation_params[sorted_keys[j]])]
        param_str_parts == IF Truthy(variation_data.harness)
                           THEN <<variation_data.harness>> \o key_parts
                           ELSE key_parts
        param_str == JoinWith("__", param_str_parts)
    IN IF param_str_parts = <<>>
       THEN base_name
       ELSE IF Len(param_str) <= MAX_PARAM_STR_LEN
       THEN base_name \o "__" \o param_str
       ELSE base_name \o "__" \o SubSeq(param_str, 1, MAX_PARAM_STR_LEN) \o "__"
                         \o VariationHashShort[param_str]

_generate_variation_name(base_name, variation_data) ==
    LET variation_params == variation_data.params
        sorted_keys == KeysOf(variation_params)
        key_parts == [j \in 1..Len(sorted_keys) |->
                         sorted_keys[j] \o "_" \o PyStr(variation_params[sorted_keys[j]])]
        param_str_parts == IF Truthy(variation_data.harness)
                           THEN <<variation_data.harness>> \o key_parts
                           ELSE key_parts
        param_str == JoinWith("__", param_str_parts)
    IN IF Truthy(variation_data.name)
       THEN base_name \o "__" \o variation_data.name
       ELSE IF param_str_parts = <<>>
       THEN base_name
       ELSE IF Len(param_str) <= MAX_PARAM_STR_LEN
       THEN base_name \o "__" \o param_str
       ELSE base_name \o "__" \o SubSeq(param_str, 1, MAX_PARAM_STR_LEN) \o "__"
                         \o VariationHashShort[param_str]

RECURSIVE _expand_recursive(_, _, _)
RECURSIVE ExpandEachItem(_, _, _, _)

\* lines 222-243: the loop over current_case_info.variations
ExpandEachItem(current_case_name, current_case_info, accumulated_expanded_cases, j) ==
    IF j > Len(current_case_info.variations.list)
    THEN [cases |-> accumulated_expanded_cases, err |-> NoError]
    ELSE LET variation_item == current_case_info.variations.list[j]
             new_case_name == _generate_variation_name(current_case_name, variation_item)
             current_case_without_variations ==
                 [current_case_info EXCEPT !.variations = NoVariations]
             merged == _merge_base_and_variation(current_case_without_variations,
                                                 variation_item, TRUE)
             r == _expand_recursive(new_case_name, merged.info, accumulated_expanded_cases)
         IN IF merged.conflict
            THEN [cases |-> accumulated_expanded_cases,
                  err |-> Error("Conflict", new_case_name)]
            ELSE IF r.err # NoError THEN r
            ELSE ExpandEachItem(current_case_name, current_case_info, r.cases, j + 1)

\* _expand_recursive without the check of line 213: a leaf whose name is taken
\* replaces the registered entry
Mut_expand_recursive_overwrites(current_case_name, current_case_info, accumulated_expanded_cases) ==
    IF ~current_case_info.variations.some
    THEN IF ~Truthy(current_case_info.harness) /\ ~current_case_info.abstract
         THEN [cases |-> accumulated_expanded_cases,
               err |-> Error("MissingHarness", current_case_name)]
         ELSE [cases |-> (current_case_name :> current_case_info)
                            @@ accumulated_expanded_cases,
               err |-> NoError]
    ELSE ExpandEachItem(current_case_name, current_case_info,
                        accumulated_expanded_cases, 1)

\* _expand_recursive without the check of line 207: a leaf is registered whether
\* or not it has a harness
Mut_expand_recursive_no_harness_check(current_case_name, current_case_info, accumulated_expanded_cases) ==
    IF ~current_case_info.variations.some
    THEN IF current_case_name \in DOMAIN accumulated_expanded_cases
         THEN [cases |-> accumulated_expanded_cases,
               err |-> Error("NameCollision", current_case_name)]
         ELSE [cases |-> accumulated_expanded_cases
                            @@ (current_case_name :> current_case_info),
               err |-> NoError]
    ELSE ExpandEachItem(current_case_name, current_case_info,
                        accumulated_expanded_cases, 1)

\* returns [cases, err]: the accumulated mapping as the call leaves it
_expand_recursive(current_case_name, current_case_info, accumulated_expanded_cases) ==
    IF ~current_case_info.variations.some
    THEN IF ~Truthy(current_case_info.harness) /\ ~current_case_info.abstract
         THEN [cases |-> accumulated_expanded_cases,
               err |-> Error("MissingHarness", current_case_name)]
         ELSE IF current_case_name \in DOMAIN accumulated_expanded_cases
         THEN [cases |-> accumulated_expanded_cases,
               err |-> Error("NameCollision", current_case_name)]
         ELSE [cases |-> accumulated_expanded_cases
                            @@ (current_case_name :> current_case_info),
               err |-> NoError]
    ELSE ExpandEachItem(current_case_name, current_case_info,
                        accumulated_expanded_cases, 1)

-----------------------------------------------------------------------------
(* Stage 4: the comprehension of preprocess_test_cases, lines 361-368 *)

PreprocessedCaseInfo(params, harness) == [params |-> params, harness |-> harness]

\* ensure_string raises for a harness that is no str
EnsureStringFails(cases) ==
    \E name \in DOMAIN cases : ~cases[name].abstract /\ cases[name].harness = None

ConcreteCases(cases) ==
    [name \in {n \in DOMAIN cases : ~cases[n].abstract} |->
        PreprocessedCaseInfo(cases[name].params, cases[name].harness)]

-----------------------------------------------------------------------------
(* preprocess_test_cases as a state machine *)

\* the blessed file when it does not exist, harness_call before harness.func
\* is called, git before the subprocess has run
NoFile == [harness |-> None, params |-> EmptyParams, result |-> "<no file>"]
NotCalled == [outcome |-> None, BLESSTEST_DEBUG |-> FALSE]
NotRun == [error |-> "<not run>", stdout |-> ""]

\* the state right after parsed_cases is built (lines 350-352) from a document,
\* with the blessed file as earlier runs left it; nothing is collected yet
SetUp(document, content) ==
    /\ raw_test_cases = document.cases
    /\ order = document.order
    /\ parsed_cases = document.cases
    /\ pc = "expand_parameter_variations"
    /\ i = 1
    /\ processed_cases = <<>>
    /\ processing_stack = {}
    /\ call_stack = <<>>
    /\ arg = None
    /\ resolved_order = <<>>
    /\ expanded_cases = <<>>
    /\ result = NoResult
    /\ err = NoError
    /\ runner = None
    /\ self_name = None
    /\ test_pc = "collect"
    /\ harness_call = NotCalled
    /\ test_result = None
    /\ blessed_file = content
    /\ git = NotRun
    /\ status = None
    /\ raised = None

\* the same with no blessed file on disk
Start(document) == SetUp(document, NoFile)

\* a skip-and-continue handler: the error is recorded and the run goes on to
\* return the cases expanded so far
Mut_Raise_returns_partial(error) ==
    /\ pc' = "concrete_cases"
    /\ err' = error
    /\ processing_stack' = {}
    /\ call_stack' = <<>>
    /\ arg' = None

\* an exception leaves preprocess_test_cases: every finally clause of the
\* process_case frames on the way out has emptied processing_stack
Raise(error) ==
    /\ pc' = "error"
    /\ err' = error
    /\ processing_stack' = {}
    /\ call_stack' = <<>>
    /\ arg' = None

\* lines 355-356: one iteration of the loop over parsed_cases.values(), or its exit
ExpandParameterVariations ==
    /\ pc = "expand_parameter_variations"
    /\ IF i > Len(order)
       THEN /\ pc' = "resolve_bases"
            /\ i' = 1
            /\ UNCHANGED <<parsed_cases, processing_stack, call_stack, arg, err>>
       ELSE LET r == _expand_parameter_variations(parsed_cases[order[i]].info)
            IN /\ parsed_cases' = [parsed_cases EXCEPT ![order[i]].info = r.info]
               /\ IF r.err # NoError
                  THEN Raise(r.err) /\ UNCHANGED i
                  ELSE /\ i' = i + 1
                       /\ UNCHANGED <<pc, processing_stack, call_stack, arg, err>>
    /\ UNCHANGED <<test_vars, raw_test_cases, order, processed_cases, resolved_order,
                   expanded_cases, result>>

\* lines 77-80: the loop of resolve_bases calls process_case(name), or returns
ResolveBases ==
    /\ pc = "resolve_bases"
    /\ arg = None
    /\ call_stack = <<>>
    /\ IF i > Len(order)
       THEN /\ pc' = "resolve_variations"
            /\ i' = 1
            /\ UNCHANGED arg
       ELSE /\ arg' = order[i]
            /\ i' = i + 1
            /\ UNCHANGED pc
    /\ UNCHANGED <<test_vars, raw_test_cases, order, parsed_cases, processed_cases,
                   processing_stack, call_stack, resolved_order, expanded_cases,
                   result, err>>

\* process_case that takes a name found in processing_stack for resolved: it
\* returns the template as written instead of raising
Mut_ProcessCaseEnter_accepts_cycle ==
    /\ pc = "resolve_bases"
    /\ arg # None
    /\ IF arg \in DOMAIN processed_cases
       THEN /\ arg' = None
            /\ UNCHANGED <<pc, err, processing_stack, call_stack, processed_cases,
                           resolved_order>>
       ELSE IF arg \notin DOMAIN parsed_cases
       THEN /\ Raise(Error("BaseNotFound", arg))
            /\ UNCHANGED <<processed_cases, resolved_order>>
       ELSE IF parsed_cases[arg].base = None \/ arg \in processing_stack
       THEN /\ processed_cases' = processed_cases @@ (arg :> parsed_cases[arg].info)
            /\ resolved_order' = Append(resolved_order, arg)
            /\ arg' = None
            /\ UNCHANGED <<pc, err, processing_stack, call_stack>>
       ELSE /\ processing_stack' = processing_stack \cup {arg}
            /\ call_stack' = Append(call_stack, arg)
            /\ arg' = parsed_cases[arg].base
            /\ UNCHANGED <<pc, err, processed_cases, resolved_order>>
    /\ UNCHANGED <<test_vars, raw_test_cases, order, parsed_cases, i, expanded_cases, result>>

\* process_case whose reference error names the template that has the base
\* instead of the missing base
Mut_ProcessCaseEnter_names_caller ==
    /\ pc = "resolve_bases"
    /\ arg # None
    /\ IF arg \in DOMAIN processed_cases
       THEN /\ arg' = None
            /\ UNCHANGED <<pc, err, processing_stack, call_stack, processed_cases,
                           resolved_order>>
       ELSE IF arg \notin DOMAIN parsed_cases
       THEN /\ Raise(Error("BaseNotFound", call_stack[Len(call_stack)]))
            /\ UNCHANGED <<processed_cases, resolved_order>>
       ELSE IF arg \in processing_stack
       THEN /\ Raise(Error("CircularDependency", arg))
            /\ UNCHANGED <<processed_cases, resolved_order>>
       ELSE IF parsed_cases[arg].base = None
       THEN /\ processed_cases' = processed_cases @@ (arg :> parsed_cases[arg].info)
            /\ resolved_order' = Append(resolved_order, arg)
            /\ arg' = None
            /\ UNCHANGED <<pc, err, processing_stack, call_stack>>
       ELSE /\ processing_stack' = processing_stack \cup {arg}
            /\ call_stack' = Append(call_stack, arg)
            /\ arg' = parsed_cases[arg].base
            /\ UNCHANGED <<pc, err, processed_cases, resolved_order>>
    /\ UNCHANGED <<test_vars, raw_test_cases, order, parsed_cases, i, expanded_cases, result>>

\* lines 47-64: process_case(arg) from its entry to its return, its raise or
\* its recursive call
ProcessCaseEnter ==
    /\ pc = "resolve_bases"
    /\ arg # None
    /\ IF arg \in DOMAIN processed_cases
       THEN /\ arg' = None
            /\ UNCHANGED <<pc, err, processing_stack, call_stack, processed_cases,
                           resolved_order>>
       ELSE IF arg \notin DOMAIN parsed_cases
       THEN /\ Raise(Error("BaseNotFound", arg))
            /\ UNCHANGED <<processed_cases, resolved_order>>
       ELSE IF arg \in processing_stack
       THEN /\ Raise(Error("CircularDependency", arg))
            /\ UNCHANGED <<processed_cases, resolved_order>>
       ELSE IF parsed_cases[arg].base = None
       THEN /\ processed_cases' = processed_cases @@ (arg :> parsed_cases[arg].info)
            /\ resolved_order' = Append(resolved_order, arg)
            /\ arg' = None
            /\ UNCHANGED <<pc, err, processing_stack, call_stack>>
       ELSE /\ processing_stack' = processing_stack \cup {arg}
            /\ call_stack' = Append(call_stack, arg)
            /\ arg' = parsed_cases[arg].base
            /\ UNCHANGED <<pc, err, processed_cases, resolved_order>>
    /\ UNCHANGED <<test_vars, raw_test_cases, order, parsed_cases, i, expanded_cases, result>>

\* process_case that merges the base into the template object itself instead
\* of building a new CaseInfo
Mut_ProcessCaseReturn_merges_in_place ==
    /\ pc = "resolve_bases"
    /\ arg = None
    /\ call_stack # <<>>
    /\ LET case_name == call_stack[Len(call_stack)]
           current_case_info == parsed_cases[case_name]
           base_case_info == processed_cases[current_case_info.base]
           merged == _merge_base_and_variation(base_case_info, current_case_info.info,
                                               FALSE)
       IN IF merged.conflict
          THEN /\ Raise(Error("Conflict", case_name))
               /\ UNCHANGED <<processed_cases, resolved_order, parsed_cases>>
          ELSE /\ processing_stack' = processing_stack \ {case_name}
               /\ call_stack' = SubSeq(call_stack, 1, Len(call_stack) - 1)
               /\ processed_cases' = processed_cases @@ (case_name :> merged.info)
               /\ parsed_cases' = [parsed_cases EXCEPT ![case_name].info = merged.info]
               /\ resolved_order' = Append(resolved_order, case_name)
               /\ UNCHANGED <<pc, err, arg>>
    /\ UNCHANGED <<test_vars, raw_test_cases, order, i, expanded_cases, result>>

\* process_case without the `finally` that removes the name from the stack
Mut_ProcessCaseReturn_keeps_stack ==
    /\ pc = "resolve_bases"
    /\ arg = None
    /\ call_stack # <<>>
    /\ LET case_name == call_stack[Len(call_stack)]
           current_case_info == parsed_cases[case_name]
           base_case_info == processed_cases[current_case_info.base]
           merged == _merge_base_and_variation(base_case_info, current_case_info.info,
                                               FALSE)
       IN IF merged.conflict
          THEN /\ Raise(Error("Conflict", case_name))
               /\ UNCHANGED <<processed_cases, resolved_order>>
          ELSE /\ call_stack' = SubSeq(call_stack, 1, Len(call_stack) - 1)
               /\ processed_cases' = processed_cases @@ (case_name :> merged.info)
               /\ resolved_order' = Append(resolved_order, case_name)
               /\ UNCHANGED <<pc, err, arg, processing_stack>>
    /\ UNCHANGED <<test_vars, raw_test_cases, order, parsed_cases, i, expanded_cases, result>>

\* lines 64-75: the recursive call has returned to the innermost waiting frame
ProcessCaseReturn ==
    /\ pc = "resolve_bases"
    /\ arg = None
    /\ call_stack # <<>>
    /\ LET case_name == call_stack[Len(call_stack)]
           current_case_info == parsed_cases[case_name]
           base_case_info == processed_cases[current_case_info.base]
           merged == _merge_base_and_variation(base_case_info, current_case_info.info,
                                               FALSE)
       IN IF merged.conflict
          THEN /\ Raise(Error("Conflict", case_name))
               /\ UNCHANGED <<processed_cases, resolved_order>>
          ELSE /\ processing_stack' = processing_stack \ {case_name}
               /\ call_stack' = SubSeq(call_stack, 1, Len(call_stack) - 1)
               /\ processed_cases' = processed_cases @@ (case_name :> merged.info)
               /\ resolved_order' = Append(resolved_order, case_name)
               /\ UNCHANGED <<pc, err, arg>>
    /\ UNCHANGED <<test_vars, raw_test_cases, order, parsed_cases, i, expanded_cases, result>>

\* lines 245-248: one iteration of the loop over resolved_base_cases.items(), or
\* its exit
ResolveVariations ==
    /\ pc = "resolve_variations"
    /\ IF i > Len(resolved_order)
       THEN /\ pc' = "concrete_cases"
            /\ UNCHANGED <<i, expanded_cases, processing_stack, call_stack, arg, err>>
       ELSE LET case_name == resolved_order[i]
                r == _expand_recursive(case_name, processed_cases[case_name],
                                       expanded_cases)
            IN /\ expanded_cases' = r.cases
               /\ IF r.err # NoError
                  THEN Raise(r.err) /\ UNCHANGED i
                  ELSE /\ i' = i + 1
                       /\ UNCHANGED <<pc, processing_stack, call_stack, arg, err>>
    /\ UNCHANGED <<test_vars, raw_test_cases, order, parsed_cases, processed_cases,
                   resolved_order, result>>

\* lines 361-370: the comprehension and the return
Publish ==
    /\ pc = "concrete_cases"
    /\ IF EnsureStringFails(expanded_cases)
       THEN Raise(Error("ExpectedString", None)) /\ UNCHANGED result
       ELSE /\ pc' = "done"
            /\ result' = [some |-> TRUE, cases |-> ConcreteCases(expanded_cases)]
            /\ UNCHANGED <<processing_stack, call_stack, arg, err>>
    /\ UNCHANGED <<test_vars, raw_test_cases, order, parsed_cases, i, processed_cases,
                   resolved_order, expanded_cases>>

Next ==
    \/ ExpandParameterVariations
    \/ ResolveBases
    \/ ProcessCaseEnter
    \/ ProcessCaseReturn
    \/ ResolveVariations
    \/ Publish

-----------------------------------------------------------------------------
(* Input documents *)

MaxValue == 2        \* scalar parameter values are 1..MaxValue
MaxVariations == 2   \* longest list of sibling variations drawn without restriction

Template(base, info) == [base |-> base, info |-> info]
Document(cases, key_order) == [cases |-> cases, order |-> key_order]

\* the non-empty sequences over S of length at most n
Seqs(S, n) == UNION {[1..k -> S] : k \in 1..n}

VarLeaf(abstract, name, params, harness) ==
    CaseInfo(abstract, name, params, harness, NoVariations)

XParams == {EmptyParams} \cup {("x" :> Scalar(v)) : v \in 1..MaxValue}

\* how many of a node's fields differ from the pydantic defaults
Features(node) ==
    (IF node.abstract THEN 1 ELSE 0) + (IF node.name # None THEN 1 ELSE 0)
    + (IF node.params # EmptyParams THEN 1 ELSE 0)
    + (IF node.harness # None THEN 1 ELSE 0)

\* variation leaves with at most two fields set
BigLeaves ==
    {l \in {VarLeaf(a, nm, p, h) :
                a \in BOOLEAN, nm \in {None, "v"}, p \in XParams, h \in {None, "h2"}} :
        Features(l) <= 2}

SmallLeaves ==
    {VarLeaf(FALSE, None, EmptyParams, None),
     VarLeaf(TRUE, None, EmptyParams, None),
     VarLeaf(FALSE, None, "x" :> Scalar(1), None),
     VarLeaf(FALSE, None, "y" :> Scalar(1), "h2"),
     VarLeaf(FALSE, "v", EmptyParams, "")}

\* variation branches with variations of their own
InnerNodes ==
    {CaseInfo(f[1], None, f[2], f[3], Variations(l)) :
        f \in {<<FALSE, EmptyParams, None>>, <<TRUE, EmptyParams, None>>,
               <<FALSE, "x" :> Scalar(2), None>>, <<FALSE, EmptyParams, "h2">>,
               <<TRUE, "x" :> Scalar(2), "h2">>},
        l \in Seqs(SmallLeaves, MaxVariations)}

VariationLists ==
    {<<a>> : a \in BigLeaves \cup InnerNodes}
    \cup {<<a, b>> : a \in BigLeaves, b \in BigLeaves}
    \cup {<<a, b>> : a \in InnerNodes, b \in SmallLeaves}

TemplateFields == {<<a, p, h>> : a \in BOOLEAN,
                                 p \in {EmptyParams, "x" :> Scalar(1)},
                                 h \in {None, "h1"}}

\* one template A with a variation tree of depth one or two
TreeDocuments ==
    {Document("A" :> Template(None, CaseInfo(f[1], None, f[2], f[3], Variations(l))),
              <<"A">>) :
        f \in TemplateFields, l \in VariationLists}

\* template A with variations and a second template whose key may equal a name
\* generated under A, or which inherits A's variations through base
PairDocuments ==
    {Document(("A" :> Template(None, CaseInfo(f[1], None, f[2], f[3], Variations(l))))
              @@ (k :> Template(b, VarLeaf(g[1], None, EmptyParams, g[2]))),
              IF first THEN <<"A", k>> ELSE <<k, "A">>) :
        f \in TemplateFields,
        l \in Seqs({VarLeaf(FALSE, "v", EmptyParams, None),
                    VarLeaf(TRUE, "v", EmptyParams, None),
                    VarLeaf(FALSE, None, "x" :> Scalar(1), None),
                    VarLeaf(FALSE, None, EmptyParams, None)}, MaxVariations),
        k \in {"A__v", "A__x_1", "B"},
        b \in {None, "A"},
        g \in {<<FALSE, None>>, <<FALSE, "h2">>, <<TRUE, None>>},
        first \in BOOLEAN}

InitVariations ==
    \/ \E document \in TreeDocuments : Start(document)
    \/ \E document \in PairDocuments : Start(document)

SpecVariations == InitVariations /\ [][Next]_vars

-----------------------------------------------------------------------------
(* The expanded forest, described without the expansion's bookkeeping *)

\* resolve_bases has returned: every input key has its resolved template
BasesResolved == DOMAIN processed_cases = DOMAIN raw_test_cases /\ pc # "resolve_bases"

RECURSIVE PathsFrom(_)
\* the root-to-leaf paths of a node's variation tree, in depth-first order; a
\* path is the sequence of its nodes and a leaf is a node whose variations is absent
PathsFrom(node) ==
    IF ~node.variations.some THEN << <<node>> >>
    ELSE ConcatAll([j \in 1..Len(node.variations.list) |->
                      LET sub == PathsFrom(node.variations.list[j])
                      IN [q \in 1..Len(sub) |-> <<node>> \o sub[q]]])

\* the leaves of the resolved forest in expansion order, each with the key of its
\* top-level template and its path
ForestLeaves ==
    ConcatAll([t \in 1..Len(resolved_order) |->
                 LET paths == PathsFrom(processed_cases[resolved_order[t]])
                 IN [q \in 1..Len(paths) |->
                        [root |-> resolved_order[t], path |-> paths[q]]]])

RECURSIVE PathName(_, _, _)
\* the case name generated along a path, below the node at position j
PathName(prefix, path, j) ==
    IF j > Len(path) THEN prefix
    ELSE PathName(_generate_variation_name(prefix, path[j]), path, j + 1)

LeafName(leaf) == PathName(leaf.root, leaf.path, 2)

\* the deepest position of a path that satisfies P, 0 if there is none
Deepest(path, P(_)) ==
    IF \E j \in 1..Len(path) : P(path[j])
    THEN CHOOSE j \in 1..Len(path) :
             P(path[j]) /\ \A l \in 1..Len(path) : P(path[l]) => l <= j
    ELSE 0

PathAbstract(path) == \E j \in 1..Len(path) : path[j].abstract

\* key by key, the value set deepest on the path
PathParams(path) ==
    [k \in UNION {DOMAIN path[j].params : j \in 1..Len(path)} |->
        LET HasKey(node) == k \in DOMAIN node.params
        IN path[Deepest(path, HasKey)].params[k]]

\* the harness set deepest on the path (the root's own value when none is set)
PathHarness(path) ==
    LET HasHarness(node) == Truthy(node.harness)
        d == Deepest(path, HasHarness)
    IN IF d = 0 THEN path[1].harness ELSE path[d].harness

LeafInfo(leaf) ==
    CaseInfo(PathAbstract(leaf.path), leaf.path[Len(leaf.path)].name,
             PathParams(leaf.path), PathHarness(leaf.path), NoVariations)

MissingHarnessAt(leaves, j) ==
    ~PathAbstract(leaves[j].path) /\ ~Truthy(PathHarness(leaves[j].path))

RepeatsNameAt(leaves, j) ==
    \E l \in 1..(j - 1) : LeafName(leaves[l]) = LeafName(leaves[j])

\* the first leaf, in expansion order, at which the expansion must raise; 0 if none
FirstFault(leaves) ==
    LET Faulty(j) == MissingHarnessAt(leaves, j) \/ RepeatsNameAt(leaves, j)
    IN IF \E j \in 1..Len(leaves) : Faulty(j)
       THEN CHOOSE j \in 1..Len(leaves) :
                Faulty(j) /\ \A l \in 1..Len(leaves) : Faulty(l) => j <= l
       ELSE 0

Finished == pc \in {"concrete_cases", "done"}

-----------------------------------------------------------------------------
(* C1 *)

\* C1: case names are unique across the whole output.  While and after the
\* variations are expanded, every registered entry is the first leaf of the
\* forest (in expansion order) that generated its name, so no later leaf with
\* the same name has overwritten it; the expansion only completes when no two
\* leaves of the forest (of one template or of different ones, abstract or not)
\* share a name, and then it has registered exactly one entry per leaf; and when
\* the first leaf at which the expansion must stop repeats an earlier leaf's name
\* (and has a harness or is abstract), the run fails with the name-collision
\* error for that name.
Thm_C1_NamesUnique ==
    BasesResolved =>
        LET leaves == ForestLeaves
            first == FirstFault(leaves)
        IN /\ \A n \in DOMAIN expanded_cases :
                 \E j \in 1..Len(leaves) :
                    /\ LeafName(leaves[j]) = n
                    /\ ~RepeatsNameAt(leaves, j)
                    /\ expanded_cases[n] = LeafInfo(leaves[j])
           /\ Finished =>
                 /\ \A j \in 1..Len(leaves) : ~RepeatsNameAt(leaves, j)
                 /\ Cardinality(DOMAIN expanded_cases) = Len(leaves)
           /\ (pc = "error" /\ first > 0 /\ ~MissingHarnessAt(leaves, first)) =>
                 err = Error("NameCollision", LeafName(leaves[first]))

\* a run that failed with the name-collision error between a leaf of template A
\* and a leaf of another top-level template
Wit_C1_CollisionAcrossTemplates ==
    /\ pc = "error"
    /\ err.kind = "NameCollision"
    /\ BasesResolved
    /\ \E a, b \in 1..Len(ForestLeaves) :
          /\ ForestLeaves[a].root # ForestLeaves[b].root
          /\ LeafName(ForestLeaves[a]) = err.about
          /\ LeafName(ForestLeaves[b]) = err.about
          /\ PathAbstract(ForestLeaves[a].path) # PathAbstract(ForestLeaves[b].path)

-----------------------------------------------------------------------------
(* C2 *)

\* C2: every entry of the returned mapping has a non-empty string harness.  A
\* run whose resolved forest has a non-abstract leaf without a harness (own,
\* from a variation above it, or from the resolved template, which carries the
\* base chain's) never completes the expansion, and it fails with the
\* missing-harness error naming that leaf when that leaf is the first at which
\* the expansion must stop.  The missing-harness error is only ever raised for a
\* non-abstract leaf: an abstract leaf without a harness raises nothing.
Thm_C2_HarnessRequired ==
    /\ pc = "done" =>
          \A n \in DOMAIN result.cases : Truthy(result.cases[n].harness)
    /\ BasesResolved =>
          LET leaves == ForestLeaves
              first == FirstFault(leaves)
          IN /\ Finished => \A j \in 1..Len(leaves) : ~MissingHarnessAt(leaves, j)
             /\ (pc = "error" /\ first > 0 /\ MissingHarnessAt(leaves, first)) =>
                   err = Error("MissingHarness", LeafName(leaves[first]))
             /\ (pc = "error" /\ err.kind = "MissingHarness") =>
                   /\ first > 0
                   /\ MissingHarnessAt(leaves, first)
             /\ pc = "error" => err.kind \in {"MissingHarness", "NameCollision"}

\* a run that failed with the missing-harness error at a leaf two levels below
\* its template, after an abstract leaf without a harness was registered
Wit_C2_MissingHarness ==
    /\ pc = "error"
    /\ err.kind = "MissingHarness"
    /\ BasesResolved
    /\ \E j \in 1..Len(ForestLeaves) :
          /\ LeafName(ForestLeaves[j]) = err.about
          /\ Len(ForestLeaves[j].path) = 3
    /\ \E n \in DOMAIN expanded_cases :
          expanded_cases[n].abstract /\ ~Truthy(expanded_cases[n].harness)

-----------------------------------------------------------------------------
(* C3 *)

\* C3: in a run that returns, a leaf of the resolved forest is in the returned
\* mapping if and only if no node on its path (the resolved top-level template,
\* the variation branches, the leaf itself) is abstract; every other leaf is
\* registered by the expansion as abstract and removed from the result.
Thm_C3_AbstractFiltered ==
    pc = "done" =>
        LET leaves == ForestLeaves
        IN /\ \A j \in 1..Len(leaves) :
                 /\ LeafName(leaves[j]) \in DOMAIN result.cases
                       <=> ~PathAbstract(leaves[j].path)
                 /\ expanded_cases[LeafName(leaves[j])].abstract
                       <=> PathAbstract(leaves[j].path)
           /\ DOMAIN result.cases \subseteq {LeafName(leaves[j]) : j \in 1..Len(leaves)}

\* a run that returned a non-empty mapping and removed a leaf that sets abstract
\* false itself, below an abstract variation branch of a non-abstract template
Wit_C3_AbstractAncestor ==
    /\ pc = "done"
    /\ result.cases # <<>>
    /\ \E j \in 1..Len(ForestLeaves) :
          LET path == ForestLeaves[j].path
          IN /\ Len(path) = 3
             /\ ~path[1].abstract /\ path[2].abstract /\ ~path[3].abstract
             /\ Truthy(PathHarness(path))
             /\ LeafName(ForestLeaves[j]) \notin DOMAIN result.cases

-----------------------------------------------------------------------------
(* C5 *)

\* C5: in a run that returns, the entry of every published leaf has, for each
\* parameter key set on the leaf's path, the value set deepest on the path (a
\* descendant's value replaces an ancestor's) and no other key, and its harness
\* is the one set deepest on the path.
Thm_C5_PathOverride ==
    pc = "done" =>
        \A j \in 1..Len(ForestLeaves) :
            LET leaf == ForestLeaves[j]
            IN ~PathAbstract(leaf.path) =>
                  result.cases[LeafName(leaf)] =
                      PreprocessedCaseInfo(PathParams(leaf.path), PathHarness(leaf.path))

\* a run that returned a leaf two levels deep whose path sets a parameter to
\* different values at two levels and sets different harnesses at two levels
Wit_C5_OverrideOnPath ==
    /\ pc = "done"
    /\ \E j \in 1..Len(ForestLeaves) :
          LET path == ForestLeaves[j].path
          IN /\ Len(path) = 3
             /\ ~PathAbstract(path)
             /\ \E a, b \in 1..3 :
                   /\ a < b
                   /\ "x" \in DOMAIN path[a].params \cap DOMAIN path[b].params
                   /\ path[a].params["x"] # path[b].params["x"]
             /\ \E a, b \in 1..3 :
                   /\ a < b
                   /\ Truthy(path[a].harness) /\ Truthy(path[b].harness)
                   /\ path[a].harness # path[b].harness

-----------------------------------------------------------------------------
(* Input documents for base resolution *)

NumTemplates == 3    \* templates of a base-resolution document

TemplateNames == <<"A", "B", "C", "D", "E">>
Names == {TemplateNames[k] : k \in 1..NumTemplates}

\* the orders in which the names can have been written: the alphabetical
\* order and its reverse, each started at any name
KeyOrders ==
    {[j \in 1..NumTemplates |->
         TemplateNames[IF forward THEN ((start + j - 2) % NumTemplates) + 1
                                  ELSE ((start - j + NumTemplates) % NumTemplates) + 1]] :
        start \in 1..NumTemplates, forward \in BOOLEAN}

\* template k without variations: the last one sets a harness
PlainInfo(k) ==
    CaseInfo(FALSE, None, "x" :> Scalar(k),
             IF k = NumTemplates THEN "h1" ELSE None, NoVariations)

\* template k of a document whose last template has a variation x = 1: template
\* B sets x = 2 itself, the others x = 1
VariedInfo(k) ==
    CaseInfo(FALSE, None, "x" :> Scalar(IF k = 2 THEN 2 ELSE 1), "h1",
             IF k = NumTemplates
             THEN Variations(<<VarLeaf(FALSE, None, "x" :> Scalar(1), None)>>)
             ELSE NoVariations)

IndexOf(n) == CHOOSE k \in 1..NumTemplates : TemplateNames[k] = n

KeyOrderOfNames == [k \in 1..NumTemplates |-> TemplateNames[k]]

\* every base relation over the names, a missing name Z included, in every
\* key order
RelationDocuments ==
    {Document([n \in Names |-> Template(b[n], PlainInfo(IndexOf(n)))], o) :
        b \in [Names -> Names \cup {None, "Z"}], o \in KeyOrders}

\* every base relation again, over templates that can conflict
ConflictDocuments ==
    {Document([n \in Names |-> Template(b[n], VariedInfo(IndexOf(n)))], KeyOrderOfNames) :
        b \in [Names -> Names \cup {None, "Z"}]}

ChainBase(n) ==
    IF IndexOf(n) = NumTemplates THEN None ELSE TemplateNames[IndexOf(n) + 1]

\* the chain A -> B -> C -> ... with every choice of params, each template
\* setting a harness of its own or none
ChainParamDocuments ==
    {Document([n \in Names |->
                  Template(ChainBase(n),
                           CaseInfo(FALSE, None, f[n][1],
                                    IF f[n][2] THEN "h" \o ToString(IndexOf(n)) ELSE None,
                                    NoVariations))],
              KeyOrderOfNames) :
        f \in [Names -> {EmptyParams, "x" :> Scalar(1), "x" :> Scalar(2),
                         "y" :> Scalar(1)} \X BOOLEAN]}

\* the chain A -> B -> C -> ... with every choice of harness
ChainHarnessDocuments ==
    {Document([n \in Names |->
                  Template(ChainBase(n),
                           CaseInfo(FALSE, None, "x" :> Scalar(IndexOf(n)), f[n],
                                    NoVariations))],
              KeyOrderOfNames) :
        f \in [Names -> {None, "", "h1", "h2"}]}

InitBases ==
    \/ \E document \in RelationDocuments : Start(document)
    \/ \E document \in ConflictDocuments : Start(document)
    \/ \E document \in ChainParamDocuments : Start(document)
    \/ \E document \in ChainHarnessDocuments : Start(document)

SpecBases == InitBases /\ [][Next]_vars

\* the interpreter always runs the next statement: the pipeline never pauses
\* while a step is possible
FairSpecBases == SpecBases /\ WF_vars(Next)

-----------------------------------------------------------------------------
(* The base relation of the document that resolve_bases receives *)

RECURSIVE ChainFrom(_, _)
\* the base chain of a template: the names met by following base from it, the
\* template first, up to the first name that is missing, repeated or has no base
ChainFrom(name, seen) ==
    IF name \notin DOMAIN parsed_cases \/ name \in seen THEN <<name>>
    ELSE IF parsed_cases[name].base = None THEN <<name>>
    ELSE <<name>> \o ChainFrom(parsed_cases[name].base, seen \cup {name})

Chain(name) == ChainFrom(name, {})

ChainEnd(name) == Chain(name)[Len(Chain(name))]

\* how the chain ends: at a name that is no template, at a name already on the
\* chain, or at a template without base
ChainMissing(name) == ChainEnd(name) \notin DOMAIN parsed_cases
ChainCyclic(name) ==
    /\ ~ChainMissing(name)
    /\ \E j \in 1..(Len(Chain(name)) - 1) : Chain(name)[j] = ChainEnd(name)
ChainSound(name) == ~ChainMissing(name) /\ ~ChainCyclic(name)

\* the template whose top-level process_case call is running or has raised
Running == order[i - 1]

InResolveBases == err.kind \in {"BaseNotFound", "CircularDependency", "Conflict"}

\* the nearest position of a sound chain whose template satisfies P, 0 if none
Nearest(chain, P(_)) ==
    IF \E j \in 1..Len(chain) : P(parsed_cases[chain[j]].info)
    THEN CHOOSE j \in 1..Len(chain) :
             /\ P(parsed_cases[chain[j]].info)
             /\ \A l \in 1..Len(chain) : P(parsed_cases[chain[l]].info) => j <= l
    ELSE 0

-----------------------------------------------------------------------------
(* C4 *)

\* C4: a template that resolve_bases has resolved has, for every parameter key
\* set anywhere on its base chain, the value of the nearest template of the
\* chain that sets the key (the template itself first) and no other key: the
\* root-most base's params overridden key by key by each nearer template's; and
\* its harness is that of the nearest template of the chain that sets one.
Thm_C4_BaseChainOverride ==
    \A name \in DOMAIN processed_cases :
        LET chain == Chain(name)
            HasHarness(info) == Truthy(info.harness)
            h == Nearest(chain, HasHarness)
        IN /\ ChainSound(name)
           /\ DOMAIN processed_cases[name].params =
                 UNION {DOMAIN parsed_cases[chain[j]].info.params : j \in 1..Len(chain)}
           /\ \A k \in DOMAIN processed_cases[name].params :
                 LET HasKey(info) == k \in DOMAIN info.params
                 IN processed_cases[name].params[k] =
                       parsed_cases[chain[Nearest(chain, HasKey)]].info.params[k]
           /\ h > 0 => processed_cases[name].harness = parsed_cases[chain[h]].info.harness
           /\ h = 0 => ~Truthy(processed_cases[name].harness)

\* resolve_bases has returned for a chain of three templates in which the
\* middle one overrides a key of the root-most one, the nearest one sets another
\* key, and the harness comes from the middle one
Wit_C4_ChainOfThree ==
    /\ BasesResolved
    /\ \E name \in DOMAIN processed_cases :
          LET chain == Chain(name)
          IN /\ Len(chain) = 3
             /\ "y" \in DOMAIN parsed_cases[chain[1]].info.params
             /\ "x" \in DOMAIN parsed_cases[chain[2]].info.params
             /\ "x" \in DOMAIN parsed_cases[chain[3]].info.params
             /\ parsed_cases[chain[2]].info.params["x"] # parsed_cases[chain[3]].info.params["x"]
             /\ processed_cases[name].params["x"] = parsed_cases[chain[2]].info.params["x"]
    /\ \E name \in DOMAIN processed_cases :
          LET chain == Chain(name)
          IN /\ Len(chain) = 3
             /\ ~Truthy(parsed_cases[chain[1]].info.harness)
             /\ Truthy(parsed_cases[chain[2]].info.harness)
             /\ Truthy(parsed_cases[chain[3]].info.harness)
             /\ parsed_cases[chain[2]].info.harness # parsed_cases[chain[3]].info.harness

-----------------------------------------------------------------------------
(* C6 *)

Returned == pc \in {"resolve_variations", "concrete_cases", "done"}

\* the recursion of process_case is bounded: its frames are distinct templates,
\* and processing_stack holds exactly their names
C6_BoundedRecursion ==
    /\ Len(call_stack) <= Cardinality(DOMAIN parsed_cases)
    /\ \A a, b \in 1..Len(call_stack) : call_stack[a] = call_stack[b] => a = b
    /\ processing_stack = SeqRange(call_stack)

\* resolve_bases does not return for a document whose base relation has a cycle
C6_NeverReturns ==
    (\E n \in DOMAIN parsed_cases : ChainCyclic(n)) => ~Returned /\ result = NoResult

\* the loop of resolve_bases is calling process_case for a template whose base
\* chain runs into a cycle (the template on the cycle or not)
C6_CyclicCall ==
    pc = "resolve_bases" /\ arg # None /\ call_stack = <<>> /\ ChainCyclic(arg)

\* ... and that call has raised the circular-dependency error, for the template
\* at which the chain closes
C6_CycleRaised ==
    /\ pc = "error"
    /\ err.kind = "CircularDependency"
    /\ err.about = ChainEnd(Running)
    /\ ChainCyclic(Running)

\* C6: in every key order, for a document whose base relation has a cycle (a
\* self-reference, a cycle of several templates, a cycle entered from a template
\* outside it), process_case never recurses deeper than the number of templates,
\* resolve_bases never returns, and every top-level process_case call for a
\* template whose chain runs into the cycle ends by raising the
\* circular-dependency error.
Thm_C6_CycleRaises ==
    /\ [](C6_BoundedRecursion /\ C6_NeverReturns)
    /\ [](C6_CyclicCall => <>C6_CycleRaised)

\* the circular-dependency error was raised for a cycle of two templates that
\* was entered from a third template, processed first, that is not on the cycle
Wit_C6_CycleFromOutside ==
    /\ C6_CycleRaised
    /\ Running = order[1]
    /\ Len(Chain(Running)) = 4
    /\ ChainEnd(Running) # Running
    /\ parsed_cases[ChainEnd(Running)].base # ChainEnd(Running)

-----------------------------------------------------------------------------
(* C7 *)

\* C7: resolve_bases never returns, and the run produces no mapping, for a
\* document in which some template's base chain ends at a name that is no
\* top-level key; when the top-level process_case call that raised was for a
\* template with such a chain, the error is the reference error and names the
\* missing base; and the reference error is raised for no other reason.
Thm_C7_MissingBaseRaises ==
    /\ (\E n \in DOMAIN parsed_cases : ChainMissing(n)) => ~Returned /\ result = NoResult
    /\ (pc = "error" /\ InResolveBases /\ ChainMissing(Running)) =>
          err = Error("BaseNotFound", ChainEnd(Running))
    /\ (pc = "error" /\ err.kind = "BaseNotFound") =>
          /\ ChainMissing(Running)
          /\ err.about \notin DOMAIN parsed_cases

\* the reference error was raised for a base that is missing two levels up the
\* base chain of the template being resolved
Wit_C7_MissingUpTheChain ==
    /\ pc = "error"
    /\ err.kind = "BaseNotFound"
    /\ Len(Chain(Running)) = 4
    /\ result = NoResult

-----------------------------------------------------------------------------
(* Input documents for bracket expansion *)

MaxList == 2    \* longest list value of the key [n]

Ints(s) == [j \in 1..Len(s) |-> Scalar(s[j])]

\* the lists of distinct scalars of 1..MaxValue, the empty list included
DistinctLists ==
    {List(<<>>)} \cup
    {List(Ints(q)) : q \in {q \in Seqs(1..MaxValue, MaxList) :
                               \A a, b \in 1..Len(q) : q[a] = q[b] => a = b}}

\* a params dict from optional entries: Absent leaves the key out
Absent == List(<<List(<<>>), List(<<>>), List(<<>>)>>)
Dict(entries) == [k \in {k \in DOMAIN entries : entries[k] # Absent} |-> entries[k]]

Pair(a, b) == List(<<Scalar(a), Scalar(b)>>)

\* one template A whose params hold any of the bracket keys: list values of
\* every size, a value that is no list, and malformed values of the multi key
FlatBracketDocuments ==
    {Document("A" :> Template(None,
                  CaseInfo(FALSE, None,
                           Dict(("[n]" :> n) @@ ("[k]" :> k) @@ ("[[n,m]]" :> nm)
                                @@ ("[[m]]" :> mm) @@ ("[m]" :> m) @@ plain),
                           h, v)),
              <<"A">>) :
        n \in {Absent, Scalar(1)} \cup DistinctLists,
        k \in {Absent, List(<<>>), List(<<Scalar(1)>>)},
        nm \in {Absent, List(<<>>), List(<<Pair(1, 2)>>), List(<<Pair(1, 2), Pair(2, 1)>>),
                List(<<List(<<Scalar(1)>>)>>), List(<<Scalar(1)>>),
                List(<<Pair(1, 2), List(<<Scalar(1)>>)>>)},
        mm \in {Absent, List(<<List(<<Scalar(1)>>)>>)},
        m \in {Absent, List(<<Scalar(1), Scalar(2)>>)},
        plain \in {("x" :> Absent), ("x" :> Scalar(1)), ("n" :> Scalar(2))},
        h \in {None, "h1"},
        v \in {NoVariations, Variations(<<>>),
               Variations(<<VarLeaf(FALSE, None, "y" :> Scalar(1), None)>>)}}

\* bracket keys one and two levels below template A, beside explicit variations
\* or not
NestedBracketDocuments ==
    {Document("A" :> Template(None,
                  CaseInfo(FALSE, None, Dict("[k]" :> k), "h1",
                      Variations(<<
                          CaseInfo(FALSE, None, Dict(("[n]" :> n) @@ ("x" :> Scalar(1))), None,
                              IF deep
                              THEN Variations(<<
                                       CaseInfo(FALSE, None, Dict("[m]" :> m), None, v)>>)
                              ELSE NoVariations)>>))),
              <<"A">>) :
        k \in {Absent, List(<<Scalar(1)>>)},
        n \in {Absent, Scalar(1), List(<<Scalar(1)>>), List(<<Scalar(1), Scalar(2)>>)},
        deep \in BOOLEAN,
        m \in {Absent, Scalar(2), List(<<Scalar(1)>>)},
        v \in {NoVariations,
               Variations(<<VarLeaf(FALSE, None, "y" :> Scalar(1), None)>>)}}

\* template B inherits from a template A with a bracket key
InheritBracketDocuments ==
    {Document(("A" :> Template(None,
                   CaseInfo(a, None, Dict("[n]" :> n), "h1", NoVariations)))
              @@ ("B" :> Template("A",
                   CaseInfo(FALSE, None, Dict(("[m]" :> m) @@ ("x" :> Scalar(1))), None,
                            NoVariations))),
              IF first THEN <<"A", "B">> ELSE <<"B", "A">>) :
        a \in BOOLEAN, n \in DistinctLists,
        m \in {Absent, List(<<Scalar(1), Scalar(2)>>)}, first \in BOOLEAN}

InitBrackets ==
    \/ \E document \in FlatBracketDocuments : Start(document)
    \/ \E document \in NestedBracketDocuments : Start(document)
    \/ \E document \in InheritBracketDocuments : Start(document)

SpecBrackets == InitBrackets /\ [][Next]_vars

-----------------------------------------------------------------------------
(* Bracket keys of the document as written *)

BracketKeys(params) == DOMAIN params \cap (DOMAIN SingleMatch \cup DOMAIN MultiMatch)

\* the parameter names a bracket key assigns
AssignedNames(key) ==
    IF key \in DOMAIN SingleMatch THEN {SingleMatch[key]} ELSE SeqRange(MultiMatch[key])

RECURSIVE NodesOf(_)
\* a node and every node below it
NodesOf(node) ==
    {node} \cup UNION {NodesOf(node.variations.list[j]) :
                          j \in 1..Len(node.variations.list)}

\* every node the document writes, at any depth
WrittenNodes == UNION {NodesOf(raw_test_cases[n].info) : n \in DOMAIN raw_test_cases}

\* stage 1 has returned without an error
BracketsExpanded ==
    pc \in {"resolve_bases", "resolve_variations", "concrete_cases", "done"}
    \/ (pc = "error" /\ err.kind \notin {"InvalidValueFormat", "BothVariations",
                                         "OverlappingKeys"})

(* C8 *)

\* the only template is T = "A": no base, not abstract, a harness, no
\* variations, and one bracket key, a single one, over a list of distinct scalars
C8_T == raw_test_cases["A"].info
C8_Key == CHOOSE key \in BracketKeys(C8_T.params) : TRUE
C8_Values == C8_T.params[C8_Key].items
C8_Shape ==
    /\ DOMAIN raw_test_cases = {"A"}
    /\ raw_test_cases["A"].base = None
    /\ ~C8_T.abstract
    /\ Truthy(C8_T.harness)
    /\ C8_T.variations = NoVariations
    /\ Cardinality(BracketKeys(C8_T.params)) = 1
    /\ C8_Key \in DOMAIN SingleMatch
    /\ C8_T.params[C8_Key].isList
    /\ \A a, b \in 1..Len(C8_Values) :
          /\ ~C8_Values[a].isList
          /\ C8_Values[a] = C8_Values[b] => a = b

\* the k cases T__n_<v>, each with T's harness and T's other params plus n = v
C8_Expected ==
    LET n == SingleMatch[C8_Key]
        others == DictRemove(C8_T.params, {C8_Key})
        v_of(name) == CHOOSE j \in 1..Len(C8_Values) :
                          name = "A__" \o n \o "_" \o ToString(C8_Values[j].val)
    IN [name \in {"A__" \o n \o "_" \o ToString(C8_Values[j].val) :
                     j \in 1..Len(C8_Values)} |->
           PreprocessedCaseInfo(DictUpdate(others, n :> C8_Values[v_of(name)]),
                                C8_T.harness)]

C8_Outcome ==
    /\ pc # "error"
    /\ pc = "done" =>
          /\ result.cases = C8_Expected
          /\ Cardinality(DOMAIN result.cases) = Len(C8_Values)
          /\ \A name \in DOMAIN result.cases :
                BracketKeys(result.cases[name].params) = {}

\* C8 as stated: for a template T with a harness, no variations and a single
\* bracket key [n] over a list of k distinct scalars, the run never fails and
\* returns exactly k cases, named T__n_<v>, each with T's harness and T's
\* other params plus n = v, the bracket key itself absent.
Cex_C8_SingleBracket == C8_Shape => C8_Outcome

\* C8, amended: the same for a list of k >= 1 distinct scalars; the empty list
\* is the case in which the run returns the one case T instead of none.
Thm_C8_SingleBracketNonEmpty == (C8_Shape /\ Len(C8_Values) >= 1) => C8_Outcome

\* a finished run over [n]: [v1, v2] beside a plain parameter n, which the
\* variation's n = v overrides
Wit_C8_TwoValuesOverPlain ==
    /\ pc = "done"
    /\ C8_Shape
    /\ Len(C8_Values) = 2
    /\ C8_Key = "[n]"
    /\ "n" \in DOMAIN C8_T.params
    /\ Cardinality(DOMAIN result.cases) = 2

(* C9 *)

\* the bracket keys of a node that generate a group, and the group of each
C9_GroupKeys(node) == {key \in BracketKeys(node.params) : node.params[key].isList}
C9_Group(node, key) == ParamGroup(node.params, key)

\* two groups of the node assign a common parameter name
C9_Overlap(node) ==
    \E k1, k2 \in C9_GroupKeys(node) :
        /\ k1 # k2
        /\ C9_Group(node, k1) # <<>>
        /\ C9_Group(node, k2) # <<>>
        /\ AssignedNames(k1) \cap AssignedNames(k2) # {}

\* a template whose bracket keys are well formed and that has no explicit
\* variations
C9_Applies(n) ==
    LET node == raw_test_cases[n].info
    IN /\ C9_GroupKeys(node) # {}
       /\ node.variations.list = <<>>
       /\ \A key \in C9_GroupKeys(node) : ~InvalidValueFormat(node.params, key)

\* one assignment from each group, by position
C9_Choices(node) ==
    {c \in [C9_GroupKeys(node) -> 1..(MaxList + 1)] :
        \A key \in C9_GroupKeys(node) : c[key] <= Len(C9_Group(node, key))}

RECURSIVE C9_Union(_, _, _)
C9_Union(node, c, keys) ==
    IF keys = {} THEN EmptyParams
    ELSE LET key == CHOOSE key \in keys : TRUE
         IN DictUpdate(C9_Group(node, key)[c[key]], C9_Union(node, c, keys \ {key}))

RECURSIVE C9_Size(_, _)
C9_Size(node, keys) ==
    IF keys = {} THEN 1
    ELSE LET key == CHOOSE key \in keys : TRUE
         IN Len(C9_Group(node, key)) * C9_Size(node, keys \ {key})

\* the variations stage 1 generated for template n are the product of its groups
C9_ProductExact(n) ==
    LET node == raw_test_cases[n].info
        generated == parsed_cases[n].info.variations.list
    IN /\ Len(generated) = C9_Size(node, C9_GroupKeys(node))
       /\ \A c \in C9_Choices(node) :
             Cardinality({j \in 1..Len(generated) :
                             generated[j].params = C9_Union(node, c, C9_GroupKeys(node))}) = 1

\* without overlap, a template's groups expand to their Cartesian product: the
\* product of the group sizes in number, each combination exactly once
C9_Product ==
    \A n \in DOMAIN raw_test_cases :
        (C9_Applies(n) /\ ~C9_Overlap(raw_test_cases[n].info)
         /\ (pc = "expand_parameter_variations" => \E j \in 1..(i - 1) : order[j] = n)
         /\ (pc = "error" => BracketsExpanded))
        => C9_ProductExact(n)

\* C9 as stated: several bracket groups at one level expand to their Cartesian
\* product (as many variations as the product of the group sizes, each
\* combination exactly once), and whenever two groups assign an overlapping
\* parameter name the expansion fails with an error: stage 1 does not return.
Cex_C9_ProductOrOverlapError ==
    /\ C9_Product
    /\ BracketsExpanded =>
          \A n \in DOMAIN raw_test_cases : C9_Applies(n) => ~C9_Overlap(raw_test_cases[n].info)

\* what the code does raise: two overlapping groups fail the expansion when no
\* group of the node is empty
C9_OverlapRaisesWhenProductNonEmpty ==
    BracketsExpanded =>
        \A n \in DOMAIN raw_test_cases :
            (C9_Applies(n) /\ C9_Size(raw_test_cases[n].info, C9_GroupKeys(raw_test_cases[n].info)) > 0)
            => ~C9_Overlap(raw_test_cases[n].info)

\* a finished run over two overlapping non-empty groups beside an empty one
Wit_C9_OverlapBesideEmptyGroup ==
    /\ pc = "done"
    /\ \E n \in DOMAIN raw_test_cases :
          /\ C9_Applies(n)
          /\ C9_Overlap(raw_test_cases[n].info)
          /\ DOMAIN result.cases = {n}

(* C10 *)

\* the node has explicit variations and a bracket key
C10_Both(node) == node.variations.list # <<>> /\ BracketKeys(node.params) # {}

\* C10 as stated: at every nesting depth, a node with explicit variations and
\* a bracket-syntax parameter key makes the run fail with a shape error in
\* stage 1, so stage 1 never returns for a document that writes such a node.
Cex_C10_BothRaise == BracketsExpanded => \A node \in WrittenNodes : ~C10_Both(node)

\* what the code does raise: the same for a bracket key whose value is a list
C10_ListValuedBothRaise ==
    BracketsExpanded =>
        \A node \in WrittenNodes :
            ~(node.variations.list # <<>> /\ C9_GroupKeys(node) # {})

\* a finished run over a node two levels down with explicit variations and a
\* bracket key whose value is no list: the key is published as a parameter
Wit_C10_NonListBesideVariations ==
    /\ pc = "done"
    /\ \E node \in WrittenNodes :
          /\ node \notin {raw_test_cases[n].info : n \in DOMAIN raw_test_cases}
          /\ C10_Both(node)
    /\ \E name \in DOMAIN result.cases : BracketKeys(result.cases[name].params) # {}

(* C11 *)

\* stage 1 has returned from template n without an error
Expanded(n) ==
    /\ pc = "expand_parameter_variations" => \E j \in 1..(i - 1) : order[j] = n
    /\ pc = "error" => BracketsExpanded

\* the multi-name keys of a node whose value is a list
C11_MultiKeys(node) == C9_GroupKeys(node) \cap DOMAIN MultiMatch

\* some element of the key's value is no list, or not of the names' length
C11_Malformed(node, key) ==
    \E j \in 1..Len(node.params[key].items) :
        LET element == node.params[key].items[j]
        IN ~element.isList \/ Len(element.items) # Len(MultiMatch[key])

\* the i-th name gets the i-th element of the inner list
C11_Positional(key, element) ==
    [name \in SeqRange(MultiMatch[key]) |->
        element.items[CHOOSE a \in 1..Len(MultiMatch[key]) : MultiMatch[key][a] = name]]

\* C11: a template whose one bracket key is a multi-name key over well-formed
\* inner lists gets one variation per inner list, in order, assigning the i-th
\* name the i-th element; a template with a multi-name key one of whose
\* elements is no list or has another length keeps stage 1 from returning, and
\* when it is the first template expanded the error is the value-format error
\* and the template is left as written, without any variation.
Thm_C11_MultiBracket ==
    \A n \in DOMAIN raw_test_cases :
        LET node == raw_test_cases[n].info
            generated == parsed_cases[n].info.variations.list
        IN /\ (\E key \in C11_MultiKeys(node) : C11_Malformed(node, key)) =>
                 /\ ~BracketsExpanded
                 /\ (pc = "error" /\ order[1] = n) =>
                        /\ err.kind = "InvalidValueFormat"
                        /\ parsed_cases[n].info = node
           /\ \A key \in C11_MultiKeys(node) :
                 (/\ C9_GroupKeys(node) = {key}
                  /\ ~C11_Malformed(node, key)
                  /\ node.variations.list = <<>>
                  /\ Expanded(n)) =>
                     /\ Len(generated) = Len(node.params[key].items)
                     /\ \A j \in 1..Len(generated) :
                           /\ generated[j].params =
                                  C11_Positional(key, node.params[key].items[j])
                           /\ generated[j].variations.list = <<>>
                     /\ key \notin DOMAIN parsed_cases[n].info.params

\* the expansion has failed on a value whose first inner list is well formed
\* and whose second is too short
Wit_C11_SecondElementTooShort ==
    /\ pc = "error"
    /\ err.kind = "InvalidValueFormat"
    /\ \E n \in DOMAIN raw_test_cases :
          LET node == raw_test_cases[n].info
          IN /\ "[[n,m]]" \in C11_MultiKeys(node)
             /\ Len(node.params["[[n,m]]"].items) = 2
             /\ Len(node.params["[[n,m]]"].items[1].items) = 2
             /\ Len(node.params["[[n,m]]"].items[2].items) = 1
             /\ parsed_cases[n].info.variations.list = <<>>

(* C12 *)

\* the node has a bracket key whose value is no list
C12_NonList(node) == \E key \in BracketKeys(node.params) : ~node.params[key].isList

\* C12 as stated: a parameter key of the bracket grammar whose value is not a
\* list makes the run fail with a shape error, so stage 1 never returns for a
\* document that writes such a key, at any depth.
Cex_C12_NonListRaises == BracketsExpanded => \A node \in WrittenNodes : ~C12_NonList(node)

\* a finished run over a template with the key [n] over a scalar: the key is
\* published, brackets included, as a parameter of the case
Wit_C12_NonListPublished ==
    /\ pc = "done"
    /\ \E n \in DOMAIN raw_test_cases :
          /\ C12_NonList(raw_test_cases[n].info)
          /\ raw_test_cases[n].info.variations = NoVariations
          /\ n \in DOMAIN result.cases
          /\ "[n]" \in DOMAIN result.cases[n].params

-----------------------------------------------------------------------------
(* Input documents for inheritance of variation trees *)

Leaf(params, harness) == CaseInfo(FALSE, None, params, harness, NoVariations)
Inner(params, children) == CaseInfo(FALSE, None, params, None, Variations(children))

\* the leaves a base's variation tree is drawn from: they agree or disagree
\* with the params and harness the inheriting template can set
BaseLeaves ==
    {Leaf("y" :> Scalar(1), None), Leaf("x" :> Scalar(1), None),
     Leaf("x" :> Scalar(2), None), Leaf(EmptyParams, "h1"), Leaf(EmptyParams, "h2")}

BaseBranches ==
    BaseLeaves
    \cup {Inner("k" :> Scalar(1), <<l>>) : l \in BaseLeaves}
    \cup {Inner("k" :> Scalar(1), <<Leaf("y" :> Scalar(1), None), Leaf("m" :> Scalar(1), None)>>)}

BaseTrees ==
    {NoVariations, Variations(<<>>)}
    \cup {Variations(<<t>>) : t \in BaseBranches}
    \cup {Variations(<<t, Leaf("m" :> Scalar(1), None)>>) : t \in BaseBranches}

AddedTrees ==
    {NoVariations, Variations(<<>>),
     Variations(<<Leaf("n" :> Scalar(1), None)>>),
     Variations(<<Leaf("n" :> Scalar(1), None), Leaf("n" :> Scalar(2), None)>>),
     Variations(<<Leaf(EmptyParams, "h1")>>),
     Variations(<<Leaf("x" :> Scalar(1), None)>>),
     Variations(<<Inner("n" :> Scalar(1),
                        <<Leaf("m" :> Scalar(1), None), Leaf("m" :> Scalar(2), None)>>)>>)}

\* template A inherits from template B; both can have variations
InheritDocuments ==
    {Document(("A" :> Template("B", CaseInfo(a[1], None, a[2], a[3], added)))
              @@ ("B" :> Template(None, CaseInfo(b[1], None, "x" :> Scalar(1), b[2], tree))),
              <<"A", "B">>) :
        a \in BOOLEAN \X {EmptyParams, "x" :> Scalar(2)} \X {None, "h2"},
        b \in BOOLEAN \X {None, "h1"},
        tree \in BaseTrees, added \in AddedTrees}

InitInherit == \E document \in InheritDocuments : Start(document)

SpecInherit == InitInherit /\ [][Next]_vars

(* C13 *)

RECURSIVE Graft(_, _)
\* the list of base branches with the added variations beneath every leaf
Graft(branches, added) ==
    [j \in 1..Len(branches) |->
        [branches[j] EXCEPT !.variations =
            IF branches[j].variations.list = <<>> THEN added
            ELSE Variations(Graft(branches[j].variations.list, added))]]

RECURSIVE LeafCount(_)
\* the number of leaves below a list of branches
LeafCount(branches) ==
    IF branches = <<>> THEN 0
    ELSE (IF branches[1].variations.list = <<>> THEN 1
          ELSE LeafCount(branches[1].variations.list))
         + LeafCount(Tail(branches))

\* template n has been resolved against its base, and both have variations
C13_BothHaveVariations(n) ==
    /\ n \in DOMAIN processed_cases
    /\ parsed_cases[n].base # None
    /\ processed_cases[parsed_cases[n].base].variations.list # <<>>
    /\ parsed_cases[n].info.variations.list # <<>>

\* C13: when a resolved base and the template that inherits from it both have
\* variations, the resolved template's variations are the base's tree with
\* the template's whole variation list beneath every leaf: no base branch is
\* lost, the leaves number (leaves of the base tree) x (leaves of the
\* template's tree), and the top level has the base's branches only.
Thm_C13_CartesianTrees ==
    \A n \in DOMAIN parsed_cases :
        C13_BothHaveVariations(n) =>
            LET base == processed_cases[parsed_cases[n].base].variations.list
                added == parsed_cases[n].info.variations
                merged == processed_cases[n].variations.list
            IN /\ merged = Graft(base, added)
               /\ Len(merged) = Len(base)
               /\ LeafCount(merged) = LeafCount(base) * LeafCount(added.list)

\* a resolved template over a base tree of depth two with three leaves and an
\* added tree with two leaves
Wit_C13_DeepBaseTimesTwo ==
    /\ C13_BothHaveVariations("A")
    /\ LeafCount(processed_cases["B"].variations.list) = 3
    /\ LeafCount(parsed_cases["A"].info.variations.list) = 2
    /\ LeafCount(processed_cases["A"].variations.list) = 6

(* C14 *)

\* the base of template n is resolved
BaseResolved(n) ==
    /\ parsed_cases[n].base # None
    /\ parsed_cases[n].base \in DOMAIN processed_cases

\* n is the only template of the document that has a base
OnlyInheritor(n) == \A o \in DOMAIN parsed_cases \ {n} : parsed_cases[o].base = None

\* stage 2 has returned
BasesMerged == pc \in {"resolve_variations", "concrete_cases", "done"}

\* a branch of the base's variation list and the variation of template n at
\* the same index set differing harnesses
C14_VariationsDiffer(n) ==
    LET base == processed_cases[parsed_cases[n].base].variations.list
        own == parsed_cases[n].info.variations.list
    IN \E j \in 1..Len(base) :
          /\ j <= Len(own)
          /\ Truthy(base[j].harness) /\ Truthy(own[j].harness)
          /\ base[j].harness # own[j].harness

\* a branch of the base's variation list and template n itself set differing
\* harnesses
C14_TemplateDiffers(n) ==
    LET base == processed_cases[parsed_cases[n].base].variations.list
    IN \E j \in 1..Len(base) :
          /\ Truthy(base[j].harness) /\ Truthy(parsed_cases[n].info.harness)
          /\ base[j].harness # parsed_cases[n].info.harness

C15_LeafNames(n) ==
    LET paths == PathsFrom(processed_cases[n])
    IN {PathName(n, paths[q], 2) :
           q \in {q \in 1..Len(paths) :
                     \A j \in 2..Len(paths[q]) : ~paths[q][j].abstract}}

\* C15: the abstract flag of a template resolved against its base is the
\* template's own flag; in a finished run, a non-abstract template with an
\* abstract base has all these leaves published, and an abstract template
\* with a non-abstract base has none published.
Thm_C15_AbstractOwnFlagOnly ==
    \A n \in DOMAIN processed_cases :
        parsed_cases[n].base # None =>
            LET own == parsed_cases[n].info.abstract
                base == processed_cases[parsed_cases[n].base].abstract
            IN /\ processed_cases[n].abstract = own
               /\ (pc = "done" /\ ~own /\ base) =>
                      C15_LeafNames(n) \subseteq DOMAIN result.cases
               /\ (pc = "done" /\ own /\ ~base) =>
                      C15_LeafNames(n) \cap DOMAIN result.cases = {}

\* a finished run that published the leaves of non-abstract A, two or more,
\* and nothing of its abstract base B
Wit_C15_AbstractBasePublishedChild ==
    /\ pc = "done"
    /\ ~parsed_cases["A"].info.abstract
    /\ processed_cases["B"].abstract
    /\ Cardinality(C15_LeafNames("A")) >= 2
    /\ DOMAIN result.cases = C15_LeafNames("A")

-----------------------------------------------------------------------------
(* Input documents for name generation *)

H27 == "harness_of_27_characters___"
H32 == "harness_of_exactly_32_characters"
H33 == "harness_of_exactly_33_characters_"

\* template A with one variation branch: named or not, with no, one or two
\* params, with no harness or one that makes the joined string shorter than,
\* exactly or longer than MAX_PARAM_STR_LEN, a leaf or the parent of a leaf;
\* template B, when present, inherits the branch from A
NameDocuments ==
    {Document(IF inherited
              THEN ("A" :> Template(None, CaseInfo(FALSE, None, root, "h1",
                                        Variations(<<CaseInfo(FALSE, nm, p, h, sub)>>))))
                   @@ ("B" :> Template("A", CaseInfo(FALSE, None, EmptyParams, None,
                                                     NoVariations)))
              ELSE ("A" :> Template(None, CaseInfo(FALSE, None, root, "h1",
                                        Variations(<<CaseInfo(FALSE, nm, p, h, sub)>>)))),
              IF inherited THEN <<"B", "A">> ELSE <<"A">>) :
        inherited \in BOOLEAN,
        root \in {EmptyParams, "x" :> Scalar(1)},
        nm \in {None, "", "v"},
        p \in {EmptyParams, "x" :> Scalar(1), "m" :> Scalar(2),
               ("n" :> Scalar(1)) @@ ("m" :> Scalar(2))},
        h \in {None, "", "h2", H27, H32, H33},
        sub \in {NoVariations, Variations(<<Leaf("x" :> Scalar(2), None)>>)}}

InitNames == \E document \in NameDocuments : Start(document)

SpecNames == InitNames /\ [][Next]_vars

(* C16 *)

\* the plain parameter names in alphabetical order
C16_Alphabetical == <<"k", "m", "n", "x", "y">>

\* the key_value tokens of a branch's own params, sorted by key, after its own
\* harness if it sets one
C16_Tokens(node) ==
    LET keys == SelectSeq(C16_Alphabetical, LAMBDA k : k \in DOMAIN node.params)
    IN (IF Truthy(node.harness) THEN <<node.harness>> ELSE <<>>)
       \o [j \in 1..Len(keys) |-> keys[j] \o "_" \o PyStr(node.params[keys[j]])]

C16_Joined(node) == JoinWith("__", C16_Tokens(node))

\* the branch declares a name, or its joined string has at most 32 characters
C16_Covered(node) == Truthy(node.name) \/ Len(C16_Joined(node)) <= 32

C16_Name(P, node) ==
    IF Truthy(node.name) THEN P \o "__" \o node.name
    ELSE IF C16_Tokens(node) = <<>> THEN P
    ELSE P \o "__" \o C16_Joined(node)

\* C16: in a finished expansion, a branch under a parent named P that declares
\* a name is registered as P__<name>; a branch without a name is registered
\* under P itself when it has no token, and under P__<joined> when its own
\* harness and its own params' key_value tokens, sorted by key and joined
\* with "__", make at most 32 characters; the branch's own branches are named
\* in the same way with that name as their parent.
Thm_C16_BranchNames ==
    Finished =>
        \A n \in DOMAIN processed_cases :
            \A j \in 1..Len(processed_cases[n].variations.list) :
                LET branch == processed_cases[n].variations.list[j]
                    name == C16_Name(n, branch)
                IN C16_Covered(branch) =>
                      IF branch.variations.list = <<>>
                      THEN /\ name \in DOMAIN expanded_cases
                           /\ expanded_cases[name].params =
                                  DictUpdate(processed_cases[n].params, branch.params)
                           /\ expanded_cases[name].name = branch.name
                      ELSE \A l \in 1..Len(branch.variations.list) :
                              LET leaf == branch.variations.list[l]
                              IN C16_Covered(leaf) =>
                                    /\ C16_Name(name, leaf) \in DOMAIN expanded_cases
                                    /\ expanded_cases[C16_Name(name, leaf)].params =
                                           DictUpdate(DictUpdate(processed_cases[n].params,
                                                                 branch.params), leaf.params)

\* a finished expansion with a branch without a name, whose harness of 27
\* characters and one param join to exactly 32 characters, and with a leaf
\* below it
Wit_C16_ExactlyThirtyTwo ==
    /\ Finished
    /\ LET branch == processed_cases["A"].variations.list[1]
       IN /\ ~Truthy(branch.name)
          /\ Len(C16_Joined(branch)) = 32
          /\ Len(C16_Tokens(branch)) = 2
          /\ branch.variations.list # <<>>
          /\ ("A__" \o H27 \o "__m_2__x_2") \in DOMAIN expanded_cases

(* C17 *)

\* the first 3 characters of the URL-safe base64 encoding of the same digests:
\* "-" for "+" and "_" for "/"
C17_UrlSafeHashShort ==
    [param_str \in DOMAIN VariationHashShort |->
        CASE VariationHashShort[param_str] = "IA/" -> "IA_"
          [] VariationHashShort[param_str] = "V+q" -> "V-q"
          [] VariationHashShort[param_str] = "0S/" -> "0S_"
          [] OTHER -> VariationHashShort[param_str]]

\* every leaf branch whose joined string is longer than 32 characters is
\* registered under P__<first 32 characters>__<suffix>
C17_LongNames(suffix) ==
    Finished =>
        \A n \in DOMAIN processed_cases :
            \A j \in 1..Len(processed_cases[n].variations.list) :
                LET branch == processed_cases[n].variations.list[j]
                    joined == C16_Joined(branch)
                IN (~C16_Covered(branch) /\ branch.variations.list = <<>>) =>
                      (n \o "__" \o SubSeq(joined, 1, 32) \o "__" \o suffix[joined])
                          \in DOMAIN expanded_cases

\* C17 as stated: a branch whose joined string is longer than 32 characters is
\* named P__<first 32 characters of the joined string>__<first 3 characters of
\* the URL-safe, unpadded base64 encoding of the SHA-256 digest of the joined
\* string>.
Cex_C17_UrlSafeSuffix == C17_LongNames(C17_UrlSafeHashShort)

\* what the code does: the same with the standard base64 alphabet
C17_StandardSuffix == C17_LongNames(VariationHashShort)

\* a finished expansion that registered a name ending in the suffix IA/
Wit_C17_SlashInName ==
    /\ Finished
    /\ ("A__" \o H32 \o "__IA/") \in DOMAIN expanded_cases
    /\ processed_cases["A"].variations.list[1].params = ("m" :> Scalar(2))

(* C18 *)

\* the run has raised: nothing is returned, whatever was expanded before
C18_NoPartialOutput ==
    /\ err # NoError <=> pc = "error"
    /\ pc = "error" => result = NoResult
    /\ result.some => pc = "done"

\* C18: an error of any kind ends the run: the run is in its error state
\* exactly when an error was raised, it has then returned no mapping, and no
\* step follows, so that the templates after the offending one are never
\* processed.
Thm_C18_ErrorsAbort == [](C18_NoPartialOutput) /\ [][pc # "error"]_vars

\* the run has raised in stage 3 on a template after it registered the cases
\* of an earlier one, and a later template is left unprocessed
Wit_C18_RaisedAfterRegistering ==
    /\ pc = "error"
    /\ err.kind = "MissingHarness"
    /\ DOMAIN expanded_cases # {}
    /\ i < Len(resolved_order)
    /\ result = NoResult

(* C19 *)

\* C19 as stated: once stage 1 has processed a template, no node of it, at any
\* depth, has a parameter key of the bracket form.
Cex_C19_NoBracketKeyLeft ==
    \A n \in DOMAIN parsed_cases :
        Expanded(n) =>
            \A node \in NodesOf(parsed_cases[n].info) : BracketKeys(node.params) = {}

\* what the code does: no bracket key with a list value is left
C19_NoListBracketKeyLeft ==
    \A n \in DOMAIN parsed_cases :
        Expanded(n) =>
            \A node \in NodesOf(parsed_cases[n].info) : C9_GroupKeys(node) = {}

\* stage 1 has returned from a template with the keys [k] over a list and [n]
\* over a scalar: [k] has become a variation and [n] is still a key
Wit_C19_ScalarKeyLeftBesideStripped ==
    /\ pc = "resolve_bases"
    /\ "[k]" \in C9_GroupKeys(raw_test_cases["A"].info)
    /\ BracketKeys(parsed_cases["A"].info.params) = {"[n]"}
    /\ parsed_cases["A"].info.variations.list # <<>>

(* C20 *)

\* the branch and the template both set a harness and they differ, or both
\* set a parameter name to differing values
C20_Conflicts(branch, template) ==
    \/ /\ Truthy(branch.harness) /\ Truthy(template.harness)
       /\ branch.harness # template.harness
    \/ \E name \in DOMAIN branch.params \cap DOMAIN template.params :
          branch.params[name] # template.params[name]

\* the branches of a variation list at every depth
C20_Branches(variations) ==
    UNION {NodesOf(variations.list[j]) : j \in 1..Len(variations.list)}

\* some branch of the resolved base of template n, at any depth, conflicts
\* with the template
C20_ConflictAtAnyDepth(n) ==
    \E branch \in C20_Branches(processed_cases[parsed_cases[n].base].variations) :
        C20_Conflicts(branch, parsed_cases[n].info)

\* C20 as stated: when a variation branch of the base, at any depth, conflicts
\* with the inheriting template, the run fails with a conflict error whether
\* or not the template has variations: the template is never resolved and
\* stage 2 never returns.
Cex_C20_EveryDepthChecked ==
    \A n \in DOMAIN parsed_cases :
        (BaseResolved(n) /\ C20_ConflictAtAnyDepth(n)) =>
            n \notin DOMAIN processed_cases /\ ~BasesMerged

\* what the code does: every depth is checked when the template has
\* variations of its own, the first level alone when it has none
C20_CheckedDepths ==
    \A n \in DOMAIN parsed_cases :
        LET base == processed_cases[parsed_cases[n].base].variations
            first_level == {base.list[j] : j \in 1..Len(base.list)}
            checked == IF parsed_cases[n].info.variations.list # <<>>
                       THEN C20_Branches(base) ELSE first_level
        IN (BaseResolved(n)
            /\ \E branch \in checked : C20_Conflicts(branch, parsed_cases[n].info)) =>
               n \notin DOMAIN processed_cases /\ ~BasesMerged

\* a finished run in which the template sets x = 2, a base branch of the
\* second level sets x = 1, and the case published for the template has x = 1
Wit_C20_DeepBranchOverrides ==
    /\ pc = "done"
    /\ "x" \in DOMAIN parsed_cases["A"].info.params
    /\ parsed_cases["A"].info.params["x"] = Scalar(2)
    /\ "A__k_1__x_1" \in DOMAIN result.cases
    /\ result.cases["A__k_1__x_1"].params["x"] = Scalar(1)

(* C21 *)

\* the resolved template n has an empty variation list
C21_EmptyList(n) == processed_cases[n].variations = Variations(<<>>)

\* C21 as stated, for a template: a resolved template whose variations is an
\* empty sequence is a leaf like one whose variations is absent. A finished
\* run has published it under its name when it is not abstract, and the run
\* never finishes when it is not abstract and has no harness.
Cex_C21_EmptyListIsLeaf ==
    \A n \in DOMAIN processed_cases :
        (C21_EmptyList(n) /\ ~processed_cases[n].abstract) =>
            /\ pc = "done" => n \in DOMAIN result.cases
            /\ ~Truthy(processed_cases[n].harness) => pc # "done"

\* what the code does: a template with an empty variation list registers
\* nothing and raises nothing
C21_EmptyListVanishes ==
    \A n \in DOMAIN processed_cases :
        (C21_EmptyList(n) /\ Finished) => n \notin DOMAIN expanded_cases

\* a finished run over a non-abstract template B with a harness and an empty
\* variation list: B is not in the output
Wit_C21_TemplateVanished ==
    /\ pc = "done"
    /\ "B" \in DOMAIN processed_cases
    /\ C21_EmptyList("B")
    /\ ~processed_cases["B"].abstract
    /\ Truthy(processed_cases["B"].harness)
    /\ "B" \notin DOMAIN result.cases

(* C22 *)

\* stage 1 run again on the mapping that stage 2 returned
C22_ExpandedAgain ==
    [n \in DOMAIN processed_cases |-> _expand_parameter_variations(processed_cases[n])]

\* stage 2 run again on that: no template has a base, so process_case stores
\* each template as it is (lines 59-60), in the order of the mapping
C22_ResolvedAgain == [n \in DOMAIN processed_cases |-> C22_ExpandedAgain[n].info]

RECURSIVE C22_VariationsAgain(_, _)
\* stage 3 on the second pass's mapping, from its j-th template on
C22_VariationsAgain(j, cases) ==
    IF j > Len(resolved_order) THEN [cases |-> cases, err |-> NoError]
    ELSE LET r == _expand_recursive(resolved_order[j],
                                    C22_ResolvedAgain[resolved_order[j]], cases)
         IN IF r.err # NoError THEN r ELSE C22_VariationsAgain(j + 1, r.cases)

\* C22: when stages 1 and 2 have succeeded, running them again on their
\* output raises nothing and changes no template, and when stage 3 has
\* succeeded too, stage 3 on the second pass's mapping gives the same cases.
Thm_C22_SecondPassIdentity ==
    /\ BasesMerged =>
          \A n \in DOMAIN processed_cases :
              /\ C22_ExpandedAgain[n].err = NoError
              /\ C22_ResolvedAgain[n] = processed_cases[n]
    /\ Finished => C22_VariationsAgain(1, <<>>) = [cases |-> expanded_cases, err |-> NoError]

\* a finished run over a template with a bracket key over two values that
\* inherits from a template with another bracket key over two values
Wit_C22_BracketsAndBaseResolved ==
    /\ pc = "done"
    /\ "B" \in DOMAIN raw_test_cases
    /\ raw_test_cases["B"].base = "A"
    /\ "[m]" \in C9_GroupKeys(raw_test_cases["B"].info)
    /\ "[n]" \in C9_GroupKeys(raw_test_cases["A"].info)
    /\ Len(raw_test_cases["A"].info.params["[n]"].items) = 2
    /\ Cardinality(DOMAIN result.cases) >= 4

(* C23 *)

\* a step leaves every template object as it was: the parsed templates, and
\* the resolved ones stored so far
C23_TemplatesKept ==
    /\ parsed_cases' = parsed_cases
    /\ \A n \in DOMAIN processed_cases :
          n \in DOMAIN processed_cases' /\ processed_cases'[n] = processed_cases[n]

-----------------------------------------------------------------------------
(* Running a published case: BlessTestItem.runtest and the decorator's
   test_func, with the blessed file and `git status` *)

MaxOutput == 3   \* longest `git status` output drawn

\* the characters of the two status columns that are told apart, and others
StatusChars == {" ", "M", "A", "?", "D"}

RECURSIVE OutputsOfLen(_)
OutputsOfLen(n) ==
    IF n = 0 THEN {""}
    ELSE {c \o rest : c \in StatusChars, rest \in OutputsOfLen(n - 1)}

\* what the subprocess can print: nothing, or the beginning of a porcelain line
StatusOutputs == UNION {OutputsOfLen(n) : n \in 0..MaxOutput}

GitStatus == {"MATCH", "CHANGED", "NEEDS_STAGING"}

Returning(value) == [status |-> value, raised |-> None]
Raising(exception) == [status |-> None, raised |-> exception]

\* output[k] of a Python str; past the end it raises IndexError
Indexable(output, k) == k < Len(output)
At(output, k) == SubSeq(output, k + 1, k + 1)

\* git_utils.check_blessed_file_status from `output = result.stdout` on
check_blessed_file_status(output) ==
    IF output = "" THEN Returning("MATCH")
    ELSE IF ~Indexable(output, 1) THEN Raising("IndexError")
    ELSE IF At(output, 1) = "?" THEN Returning("NEEDS_STAGING")
    ELSE IF At(output, 1) = " " THEN Returning("MATCH")
    ELSE IF At(output, 1) = "M" THEN Returning("CHANGED")
    ELSE Raising("ValueError")

\* decorator._check_blessed_file_status from `output = result.stdout` on
_check_blessed_file_status(output) ==
    IF Len(output) >= 2 /\ SubSeq(output, 1, 2) = "A " THEN Returning("MATCH")
    ELSE IF output = "" THEN Returning("MATCH")
    ELSE IF ~Indexable(output, 1) THEN Raising("IndexError")
    ELSE IF At(output, 1) = " " THEN Returning("MATCH")
    ELSE IF At(output, 1) = "M" THEN Returning("CHANGED")
    ELSE IF At(output, 1) = "?" THEN Returning("NEEDS_STAGING")
    ELSE Raising("ValueError")

\* the test name given to a case: line 50 of collect, line 131 of the decorator
TestName(r, name) ==
    IF r = "BlessTestItem" THEN "cases_" \o name ELSE "test_func_" \o name

\* the published case the running test was made from
test_case_info ==
    result.cases[CHOOSE name \in DOMAIN result.cases : TestName(runner, name) = self_name]

\* what is written to the blessed file: lines 95-100, decorator line 158
json_output ==
    IF runner = "BlessTestItem"
    THEN [harness |-> test_case_info.harness, params |-> test_case_info.params,
          result |-> test_result]
    ELSE [harness |-> None, params |-> EmptyParams, result |-> test_result]

\* a blessed file left by an earlier run
Blessed == [harness |-> "h1", params |-> EmptyParams, result |-> "blessed"]

HarnessOutcomes == {"returns", "invalid_output", "Exception", "BaseException"}

\* an exception leaves the test
RaiseTest(exception) ==
    /\ test_pc' = "raised"
    /\ raised' = exception

\* BlessTestFile.collect lines 49-53, decorator lines 129-178: a test is made
\* for a published case and started
Collect ==
    /\ pc = "done"
    /\ test_pc = "collect"
    /\ \E name \in DOMAIN result.cases, r \in {"BlessTestItem", "test_func"} :
          /\ runner' = r
          /\ self_name' = TestName(r, name)
          /\ test_pc' = IF r = "BlessTestItem" THEN "lookup" ELSE "validate_input"
    /\ UNCHANGED <<preprocess_vars, harness_call, test_result, blessed_file, git,
                   status, raised>>

\* line 69: all_harnesses[...] raises KeyError for an unregistered harness
Lookup ==
    /\ test_pc = "lookup"
    /\ \E registered \in BOOLEAN :
          IF registered
          THEN test_pc' = "validate_input" /\ UNCHANGED raised
          ELSE RaiseTest("KeyError")
    /\ UNCHANGED <<preprocess_vars, runner, self_name, harness_call, test_result,
                   blessed_file, git, status>>

\* lines 71-75, decorator line 151: the params are validated as the input model
ValidateInput ==
    /\ test_pc = "validate_input"
    /\ \E valid \in BOOLEAN :
          IF valid
          THEN test_pc' = "call_harness" /\ UNCHANGED raised
          ELSE RaiseTest("ValidationError")
    /\ UNCHANGED <<preprocess_vars, runner, self_name, harness_call, test_result,
                   blessed_file, git, status>>

\* a runtest that goes from the harness call straight to the status check
Mut_CallHarness_skips_write ==
    /\ test_pc = "call_harness"
    /\ \E outcome \in HarnessOutcomes, debug \in BOOLEAN :
          /\ harness_call' = [outcome |-> outcome, BLESSTEST_DEBUG |-> debug]
          /\ test_result' = outcome
          /\ test_pc' = "check_status"
          /\ UNCHANGED raised
    /\ UNCHANGED <<preprocess_vars, runner, self_name, blessed_file, git, status>>

\* lines 77-89, decorator lines 152-153: the harness function is called and its
\* return value validated; only runtest catches, and only Exception
CallHarness ==
    /\ test_pc = "call_harness"
    /\ \E outcome \in HarnessOutcomes, debug \in BOOLEAN :
          /\ harness_call' = [outcome |-> outcome, BLESSTEST_DEBUG |-> debug]
          /\ IF outcome = "returns"
             THEN /\ test_result' = "model_dump"
                  /\ test_pc' = "write"
                  /\ UNCHANGED raised
             ELSE IF runner = "BlessTestItem" /\ outcome = "invalid_output"
             THEN /\ test_result' = "invalid_output"
                  /\ test_pc' = "write"
                  /\ UNCHANGED raised
             ELSE IF runner = "BlessTestItem" /\ outcome = "Exception" /\ ~debug
             THEN /\ test_result' = "exception"
                  /\ test_pc' = "write"
                  /\ UNCHANGED raised
             ELSE /\ RaiseTest(IF outcome = "invalid_output" THEN "ValidationError"
                                                              ELSE outcome)
                  /\ UNCHANGED test_result
    /\ UNCHANGED <<preprocess_vars, runner, self_name, blessed_file, git, status>>

\* lines 91-103, decorator lines 154-161: mkdir and write_text, which the file
\* system can refuse
Write ==
    /\ test_pc = "write"
    /\ \E refused \in BOOLEAN :
          IF refused
          THEN RaiseTest("OSError") /\ UNCHANGED blessed_file
          ELSE /\ blessed_file' = json_output
               /\ test_pc' = "check_status"
               /\ UNCHANGED raised
    /\ UNCHANGED <<preprocess_vars, runner, self_name, harness_call, test_result,
                   git, status>>

\* how the `git status` subprocess of lines 29-37 can end
GitRuns ==
    {[error |-> e, stdout |-> ""] : e \in {"FileNotFoundError", "CalledProcessError"}}
    \cup {[error |-> None, stdout |-> output] : output \in StatusOutputs}

\* line 107 with git_utils lines 26-62, decorator line 165 with lines 33-69:
\* relative_to raises ValueError for a path outside the working directory;
\* then the subprocess runs and its output is classified
CheckStatus ==
    /\ test_pc = "check_status"
    /\ \/ RaiseTest("ValueError") /\ UNCHANGED <<git, status>>
       \/ \E run \in GitRuns :
             /\ git' = run
             /\ IF run.error # None
                THEN RaiseTest(run.error) /\ UNCHANGED status
                ELSE LET r == IF runner = "BlessTestItem"
                              THEN check_blessed_file_status(run.stdout)
                              ELSE _check_blessed_file_status(run.stdout)
                     IN IF r.raised # None
                        THEN RaiseTest(r.raised) /\ UNCHANGED status
                        ELSE /\ status' = r.status
                             /\ test_pc' = "assert"
                             /\ UNCHANGED raised
    /\ UNCHANGED <<preprocess_vars, runner, self_name, harness_call, test_result,
                   blessed_file>>

\* lines 113-123, decorator lines 172-181
AssertStatus ==
    /\ test_pc = "assert"
    /\ IF status \in {"NEEDS_STAGING", "CHANGED"}
       THEN RaiseTest("AssertionError")
       ELSE test_pc' = "passed" /\ UNCHANGED raised
    /\ UNCHANGED <<preprocess_vars, runner, self_name, harness_call, test_result,
                   blessed_file, git, status>>

RunTests ==
    \/ Next
    \/ Collect
    \/ Lookup
    \/ ValidateInput
    \/ CallHarness
    \/ Write
    \/ CheckStatus
    \/ AssertStatus

\* the documents whose cases are run: a plain case, an abstract base with a
\* bracket key and its inheritor, a case without params
RuntestDocuments ==
    {Document("A" :> Template(None, CaseInfo(FALSE, None, "x" :> Scalar(1), "h1",
                                             NoVariations)),
              <<"A">>),
     Document(("A" :> Template(None, CaseInfo(TRUE, None,
                                             "[n]" :> List(<<Scalar(1), Scalar(2)>>),
                                             "h1", NoVariations)))
              @@ ("B" :> Template("A", CaseInfo(FALSE, None, "x" :> Scalar(1), None,
                                                NoVariations))),
              <<"B", "A">>),
     Document("A" :> Template(None, CaseInfo(FALSE, None, EmptyParams, "h2",
                                             Variations(<<CaseInfo(FALSE, "v", EmptyParams,
                                                                   None, NoVariations)>>))),
              <<"A">>)}

InitRuntest ==
    \E document \in RuntestDocuments, content \in {NoFile, Blessed} :
        SetUp(document, content)

SpecRuntest == InitRuntest /\ [][RunTests]_vars

FairSpecRuntest == SpecRuntest /\ WF_vars(RunTests)

(* C24 *)

\* the subprocess of the running test has printed an output, and the status
\* check has classified it
C24_Classified == git.error = None

\* the second (working tree) column of the output, None when there is none
C24_WorkingTree == IF Indexable(git.stdout, 1) THEN At(git.stdout, 1) ELSE None

\* the status is the one the output stands for
C24_StatusFits ==
    /\ status = "MATCH" => git.stdout = "" \/ C24_WorkingTree = " "
    /\ status = "CHANGED" => C24_WorkingTree = "M"
    /\ status = "NEEDS_STAGING" => C24_WorkingTree = "?"
    /\ C24_WorkingTree = "M" => status = "CHANGED"

\* C24: for every output of the status command, of any length, both status
\* checks either return one of MATCH (empty output or a blank working tree
\* column), CHANGED (working tree column M) and NEEDS_STAGING (column ?), or
\* raise ValueError; they fail in no other way and never return MATCH for a file
\* with unstaged modifications.
Cex_C24_StatusOrValueError ==
    C24_Classified =>
        /\ \/ status \in GitStatus /\ raised \in {None, "AssertionError"}
           \/ status = None /\ raised = "ValueError"
        /\ C24_StatusFits

\* what holds instead: the same for every output that is empty or has at least
\* two characters; an output of one character raises IndexError
C24_TwoColumnsOrIndexError ==
    C24_Classified =>
        IF Len(git.stdout) = 1
        THEN status = None /\ raised = "IndexError"
        ELSE /\ \/ status \in GitStatus /\ raised \in {None, "AssertionError"}
                \/ status = None /\ raised = "ValueError"
             /\ C24_StatusFits

\* runtest has been given the one-character output "M" and raised IndexError
Wit_C24_IndexError ==
    /\ runner = "BlessTestItem"
    /\ C24_Classified
    /\ git.stdout = "M"
    /\ raised = "IndexError"

(* C25 *)

\* every base chain of the document ends at a template without base
C25_Acyclic == \A n \in DOMAIN parsed_cases : ChainSound(n)

RECURSIVE C25_Resolved(_)
\* a template resolved from the document alone, whatever was resolved before
C25_Resolved(n) ==
    IF parsed_cases[n].base = None THEN parsed_cases[n].info
    ELSE _merge_base_and_variation(C25_Resolved(parsed_cases[n].base),
                                   parsed_cases[n].info, FALSE).info

\* C25: for a document whose base chains all end at a template without base,
\* in a run that meets no conflict, resolve_bases raises no cycle (and no
\* missing base) error; the visiting stack holds exactly the templates whose
\* process_case call is waiting for its base, all on the base chain of the
\* template of the running top-level iteration, and is empty between
\* iterations; every template is resolved once, also a base shared by several
\* templates; and when resolve_bases has returned there is one resolved
\* template per key, each with the content its base chain gives whatever the
\* key order of the document.
Thm_C25_MemoizedResolution ==
    (C25_Acyclic /\ err.kind # "Conflict") =>
        /\ err.kind \notin {"CircularDependency", "BaseNotFound"}
        /\ processing_stack = SeqRange(call_stack)
        /\ \A j \in 1..Len(call_stack) : call_stack[j] = Chain(order[i - 1])[j]
        /\ (arg = None /\ call_stack = <<>>) => processing_stack = {}
        /\ \A a, b \in 1..Len(resolved_order) :
              resolved_order[a] = resolved_order[b] => a = b
        /\ SeqRange(resolved_order) = DOMAIN processed_cases
        /\ \A n \in DOMAIN processed_cases : processed_cases[n] = C25_Resolved(n)
        /\ BasesMerged => DOMAIN processed_cases = DOMAIN parsed_cases

\* resolve_bases has returned for a document in which two templates inherit
\* from the same template, which is not the first key and gives them its harness
Wit_C25_SharedBaseResolvedLate ==
    /\ BasesMerged
    /\ DOMAIN processed_cases = DOMAIN parsed_cases
    /\ \E b \in DOMAIN parsed_cases :
          /\ parsed_cases[b].base = None
          /\ order[1] # b
          /\ \E n, m \in DOMAIN parsed_cases :
                /\ n # m
                /\ parsed_cases[n].base = b
                /\ parsed_cases[m].base = b
                /\ processed_cases[n] # parsed_cases[n].info
                /\ processed_cases[m] # parsed_cases[m].info

(* C26 *)

\* template n has well-formed bracket keys, one of them over the empty list,
\* and no explicit variations
C26_EmptyGroup(n) ==
    LET node == raw_test_cases[n].info
    IN /\ C9_Applies(n)
       /\ \E key \in C9_GroupKeys(node) : node.params[key].items = <<>>

\* the params of template n without the keys that generate a group
C26_Remaining(n) ==
    DictRemove(raw_test_cases[n].info.params, C9_GroupKeys(raw_test_cases[n].info))

\* the name is one generated for a branch of template n
C26_Suffixed(name, n) ==
    Len(name) >= Len(n) + 2 /\ SubSeq(name, 1, Len(n) + 2) = n \o "__"

C27_Runtest == runner = "BlessTestItem"

\* runtest has run the `git status` subprocess
C27_Queried == git # NotRun

\* harness.func has raised an Exception with BLESSTEST_DEBUG unset
C27_HarnessRaised ==
    C27_Runtest /\ harness_call.outcome = "Exception" /\ ~harness_call.BLESSTEST_DEBUG

C27_Order ==
    C27_Runtest =>
        /\ C27_Queried => blessed_file = json_output
        /\ test_pc = "passed" => C27_Queried /\ status = "MATCH"
        /\ status \in {"NEEDS_STAGING", "CHANGED"} =>
              /\ test_pc \in {"assert", "raised"}
              /\ test_pc = "raised" => raised = "AssertionError"
        /\ C27_HarnessRaised =>
              /\ test_result = "exception"
              /\ raised # "Exception"
              /\ C27_Queried => blessed_file.result = "exception"

\* C27: whenever runtest has queried the status, the blessed file holds the
\* result just produced; runtest passes only with the status MATCH; with
\* NEEDS_STAGING or CHANGED it always ends in an AssertionError; and when the
\* harness function raises an Exception with BLESSTEST_DEBUG unset, the result
\* written records the exception, and runtest goes on to the write and, unless
\* the file system refuses the write, to the status check.
Thm_C27_WriteThenStatus ==
    /\ [](C27_Order)
    /\ (C27_Runtest /\ status \in {"NEEDS_STAGING", "CHANGED"})
          ~> (raised = "AssertionError")
    /\ C27_HarnessRaised
          ~> (C27_Queried \/ raised \in {"OSError", "ValueError"})

\* runtest has written the exception of the harness over an older blessed file,
\* has been told the file has unstaged changes, and has raised AssertionError
Wit_C27_ExceptionWrittenThenChanged ==
    /\ C27_HarnessRaised
    /\ blessed_file = json_output
    /\ blessed_file.result = "exception"
    /\ git.error = None
    /\ status = "CHANGED"
    /\ raised = "AssertionError"

====
